---------------------------- MODULE Spec2Model ----------------------------
(***************************************************************************)
(* Model of the assessment-analytics data loader:                          *)
(*   - the identity normaliser (looks_like_korean_name,                    *)
(*     is_class_num_format, parse_class_num_to_id),                        *)
(*   - the answer-sheet and grade-roster extractors,                       *)
(*   - the reconciler load_and_merge_data,                                 *)
(*   - the item statistics of modules/statistics.py and app.py,            *)
(* in its two revisions: modules/data_loader.py and the copy inside app.py.*)
(*                                                                         *)
(* Text is a sequence of Unicode code points.  A spreadsheet cell or a     *)
(* DataFrame value is a record [t, v]: t is the Python type of the value   *)
(* ("str", "int" or "nan" for a missing cell) and v is str(value).         *)
(***************************************************************************)
EXTENDS Integers, Sequences, FiniteSets, TLC

VARIABLES
    arg,        \* pure functions: the argument of the call
    called,     \* pure functions: which function was called ("none" before)
    ret,        \* pure functions: the value returned
    impl,       \* which revision runs: "module" (modules/data_loader.py) or "app" (app.py)
    pc,         \* position of load_and_merge_data
    fed_ans,    \* the answer-sheet files handed to the loop so far (their descriptions)
    fed_grade,  \* the grade-roster files handed to the loop so far
    all_ans,    \* all_ans: the frames appended by the answer-sheet loop
    all_grades, \* all_grades: the frames appended by the roster loop
    ans_df,     \* the concatenated answer-sheet table
    grade_df,   \* the concatenated roster table
    diag,       \* the st.warning / st.error messages issued
    result      \* what load_and_merge_data returned

nvars == <<arg, called, ret>>
pvars == <<impl, pc, fed_ans, fed_grade, all_ans, all_grades, ans_df, grade_df, diag, result>>
vars == <<arg, called, ret, impl, pc, fed_ans, fed_grade, all_ans, all_grades, ans_df,
          grade_df, diag, result>>

-----------------------------------------------------------------------------
(* Text and cells *)

\* str(float('nan'))
NanText == <<110, 97, 110>>

NaN == [t |-> "nan", v |-> NanText]
S(x) == [t |-> "str", v |-> x]
N(x) == [t |-> "int", v |-> x]

\* pd.isna on a scalar
isna(c) == c.t = "nan"

\* bool(value): a non-empty str, a non-zero int, and nan (a float that is not 0)
truthy(c) ==
    CASE c.t = "str" -> c.v # <<>>
      [] c.t = "int" -> c.v # <<48>>
      [] OTHER -> TRUE

IsSpace(ch) == ch \in {9, 10, 11, 12, 13, 28, 29, 30, 31, 32}
IsDigit(ch) == ch \in 48..57

RECURSIVE lstrip(_)
lstrip(s) == IF s # <<>> /\ IsSpace(Head(s)) THEN lstrip(Tail(s)) ELSE s

RECURSIVE rstrip(_)
rstrip(s) ==
    IF s # <<>> /\ IsSpace(s[Len(s)]) THEN rstrip(SubSeq(s, 1, Len(s) - 1)) ELSE s

\* str.strip()
strip(s) == rstrip(lstrip(s))

zfill_none(s, w) == s
\* str.zfill(width) on a text of digits: pad on the left, never cut
RECURSIVE zfill(_, _)
zfill(s, w) == IF Len(s) >= w THEN s ELSE zfill(<<48>> \o s, w)

-----------------------------------------------------------------------------
(* Identity normaliser *)

HangulFirst == 44032
HangulLast == 55203
NameMinLen == 2
NameMaxLen == 5
GradeDigit == 50

looks_like_korean_name_nostrip(c) ==
    IF isna(c) \/ c.t # "str" THEN FALSE
    ELSE LET s == c.v IN
         IF Len(s) < NameMinLen \/ Len(s) > NameMaxLen THEN FALSE
         ELSE \A i \in 1..Len(s) : HangulFirst <= s[i] /\ s[i] <= HangulLast

looks_like_korean_name(c) ==
    IF isna(c) \/ c.t # "str" THEN FALSE
    ELSE LET s == strip(c.v) IN
         IF Len(s) < NameMinLen \/ Len(s) > NameMaxLen THEN FALSE
         ELSE \A i \in 1..Len(s) : HangulFirst <= s[i] /\ s[i] <= HangulLast

IsSep(ch) == ch \in {47, 45}

\* re.match(r'^\d+[/\-]\d+$', s) as the run of its automaton:
\* 0 start, 1 in the class digits, 2 after the separator, 3 in the seat digits, 4 dead
ClassNumStep(q, ch) ==
    CASE q = 0 -> IF IsDigit(ch) THEN 1 ELSE 4
      [] q = 1 -> IF IsDigit(ch) THEN 1 ELSE IF IsSep(ch) THEN 2 ELSE 4
      [] q = 2 -> IF IsDigit(ch) THEN 3 ELSE 4
      [] q = 3 -> IF IsDigit(ch) THEN 3 ELSE 4
      [] OTHER -> 4

RECURSIVE ClassNumRun(_, _)
ClassNumRun(q, s) == IF s = <<>> THEN q ELSE ClassNumRun(ClassNumStep(q, Head(s)), Tail(s))

is_class_num_format_optseat(c) ==
    IF isna(c) THEN FALSE ELSE ClassNumRun(0, strip(c.v)) \in {2, 3}

is_class_num_format(c) ==
    IF isna(c) THEN FALSE ELSE ClassNumRun(0, strip(c.v)) = 3

\* the length of the longest prefix of digits (the greedy \d+)
RECURSIVE DigitPrefix(_)
DigitPrefix(s) == IF s # <<>> /\ IsDigit(Head(s)) THEN 1 + DigitPrefix(Tail(s)) ELSE 0

\* re.match(r'^(\d+)[/\-](\d+)$', s): <<group 1, group 2>>, or <<>> for no match
match_class_num(s) ==
    LET n == DigitPrefix(s) IN
    IF /\ n >= 1
       /\ Len(s) >= n + 2
       /\ IsSep(s[n + 1])
       /\ \A j \in (n + 2)..Len(s) : IsDigit(s[j])
    THEN <<SubSeq(s, 1, n), SubSeq(s, n + 2, Len(s))>>
    ELSE <<>>

parse_class_num_to_id_slashonly(c) ==
    IF isna(c) THEN <<>>
    ELSE LET m == match_class_num(strip(c.v)) IN
         IF m # <<>> /\ strip(c.v)[Len(m[1]) + 1] = 47
         THEN <<GradeDigit>> \o zfill(m[1], 2) \o zfill(m[2], 2)
         ELSE <<>>

parse_class_num_to_id(c) ==
    IF isna(c) THEN <<>>
    ELSE LET m == match_class_num(strip(c.v)) IN
         IF m # <<>>
         THEN <<GradeDigit>> \o zfill(m[1], 2) \o zfill(m[2], 2)
         ELSE <<>>

-----------------------------------------------------------------------------
(* The normaliser applied to bounded inputs *)

MaxCodeLen == 5
MaxNameLen == 6
MaxNumLen == 2

CodeAlphabet == {48, 49, 47, 45, 32}
NameAlphabet == {32, 49, 97, 44032, 55203}

TextsOver(A, n) == UNION {[1..k -> A] : k \in 0..n}

NormInputs ==
    {NaN}
    \cup {N(x) : x \in {<<48>>} \cup {y \in TextsOver({48, 49}, MaxNumLen) : y # <<>> /\ y[1] # 48}}
    \cup {S(x) : x \in TextsOver(CodeAlphabet, MaxCodeLen)}
    \cup {S(x) : x \in TextsOver(NameAlphabet, MaxNameLen)}

\* load_and_merge_data has not returned
Running == [kind |-> "running", at |-> "", rows |-> <<>>]

\* the loader is not running
PipelineIdle ==
    /\ impl = "module"
    /\ pc = "idle"
    /\ fed_ans = <<>>
    /\ fed_grade = <<>>
    /\ all_ans = <<>>
    /\ all_grades = <<>>
    /\ ans_df = <<>>
    /\ grade_df = <<>>
    /\ diag = {}
    /\ result = Running

InitNorm ==
    /\ arg \in NormInputs
    /\ called = "none"
    /\ ret = NaN
    /\ PipelineIdle

CallLooksLikeKoreanName ==
    /\ called = "none"
    /\ called' = "looks_like_korean_name"
    /\ ret' = looks_like_korean_name(arg)
    /\ UNCHANGED arg
    /\ UNCHANGED pvars

CallIsClassNumFormat ==
    /\ called = "none"
    /\ called' = "is_class_num_format"
    /\ ret' = is_class_num_format(arg)
    /\ UNCHANGED arg
    /\ UNCHANGED pvars

CallParseClassNumToId ==
    /\ called = "none"
    /\ called' = "parse_class_num_to_id"
    /\ ret' = parse_class_num_to_id(arg)
    /\ UNCHANGED arg
    /\ UNCHANGED pvars

NextNorm ==
    \/ CallLooksLikeKoreanName
    \/ CallIsClassNumFormat
    \/ CallParseClassNumToId

SpecNorm == InitNorm /\ [][NextNorm]_vars

-----------------------------------------------------------------------------
(* Properties of the identity normaliser (checked under SpecNorm) *)

\* the positions at which a text splits into digits, one separator, digits
CodeSplit(x) ==
    {i \in 2..(Len(x) - 1) :
        IsSep(x[i]) /\ \A j \in (1..Len(x)) \ {i} : IsDigit(x[j])}

MatchesCode(c) == c.t # "nan" /\ CodeSplit(strip(c.v)) # {}

ClassDigits(c) ==
    LET x == strip(c.v) IN SubSeq(x, 1, (CHOOSE i \in CodeSplit(x) : TRUE) - 1)

SeatDigits(c) ==
    LET x == strip(c.v) IN SubSeq(x, (CHOOSE i \in CodeSplit(x) : TRUE) + 1, Len(x))

PadLeft2(d) == IF Len(d) < 2 THEN <<48>> \o d ELSE d

RECURSIVE DecValue(_)
DecValue(d) ==
    IF d = <<>> THEN 0 ELSE 10 * DecValue(SubSeq(d, 1, Len(d) - 1)) + (d[Len(d)] - 48)

TwoDigits(n) == <<48 + (n \div 10), 48 + (n % 10)>>

AllHangul(s) == \A i \in 1..Len(s) : s[i] \in HangulFirst..HangulLast
HasDigit(s) == \E i \in 1..Len(s) : IsDigit(s[i])

\* C5 (as claimed): parse_class_num_to_id returns '' for every input that does
\* not match digits-separator-digits, and for every matching input a text of
\* exactly 5 characters: '2', two digits of class, two digits of seat.
C5_Original ==
    called = "parse_class_num_to_id" =>
        IF MatchesCode(arg)
        THEN /\ Len(ret) = 5
             /\ ret[1] = 50
             /\ \A i \in 2..Len(ret) : IsDigit(ret[i])
        ELSE ret = <<>>

\* C5 (amended): '' for every non-matching input; for a matching input the
\* result is '2', then the class digits, then the seat digits, each padded on
\* the left with zeros to at least two characters and never cut, so that the
\* result has 5 characters exactly when class and seat have at most two digits.
C5_PaddedId ==
    called = "parse_class_num_to_id" =>
        IF MatchesCode(arg)
        THEN /\ ret = <<50>> \o PadLeft2(ClassDigits(arg)) \o PadLeft2(SeatDigits(arg))
             /\ (Len(ret) = 5) <=> (Len(ClassDigits(arg)) <= 2 /\ Len(SeatDigits(arg)) <= 2)
        ELSE ret = <<>>

\* "100/1" has been parsed and gave the six characters "210001"
C5_Witness ==
    /\ called = "parse_class_num_to_id"
    /\ arg = S(<<49, 48, 48, 47, 49>>)
    /\ ret = <<50, 49, 48, 48, 48, 49>>

\* C6 (as claimed): for class and seat numbers between 1 and 99 the result is
\* '2' + class as two digits + seat as two digits, whichever separator is used
\* and however the numbers are written (leading zeros included).
C6_Original ==
    (called = "parse_class_num_to_id" /\ MatchesCode(arg)
        /\ DecValue(ClassDigits(arg)) \in 1..99 /\ DecValue(SeatDigits(arg)) \in 1..99)
    => ret = <<50>> \o TwoDigits(DecValue(ClassDigits(arg)))
                   \o TwoDigits(DecValue(SeatDigits(arg)))

\* C6 (amended): the same, for class and seat numbers between 1 and 99 that are
\* written with at most two characters (a leading zero only on a one-digit number).
C6_CanonicalId ==
    (called = "parse_class_num_to_id" /\ MatchesCode(arg)
        /\ Len(ClassDigits(arg)) <= 2 /\ Len(SeatDigits(arg)) <= 2
        /\ DecValue(ClassDigits(arg)) \in 1..99 /\ DecValue(SeatDigits(arg)) \in 1..99)
    => ret = <<50>> \o TwoDigits(DecValue(ClassDigits(arg)))
                   \o TwoDigits(DecValue(SeatDigits(arg)))

\* "01-10" has been parsed and gave "20110", the ID that "1/10" gives
C6_Witness ==
    /\ called = "parse_class_num_to_id"
    /\ arg = S(<<48, 49, 45, 49, 48>>)
    /\ ret = <<50, 48, 49, 49, 48>>
    /\ parse_class_num_to_id(S(<<49, 47, 49, 48>>)) = ret

\* C7 (as claimed): looks_like_korean_name is false for a non-string or null, for
\* a string containing a digit, for a string of length below 2 or above 5, and
\* true for a string of length 2 to 5 made only of Hangul syllables.
C7_Original ==
    called = "looks_like_korean_name" =>
        /\ arg.t # "str" => ret = FALSE
        /\ (arg.t = "str" /\ HasDigit(arg.v)) => ret = FALSE
        /\ (arg.t = "str" /\ (Len(arg.v) < 2 \/ Len(arg.v) > 5)) => ret = FALSE
        /\ (arg.t = "str" /\ Len(arg.v) \in 2..5 /\ AllHangul(arg.v)) => ret = TRUE

\* C7 (amended): the same with the length measured after trimming surrounding
\* whitespace: false for a non-string or null, for a string containing a digit,
\* for a string whose trimmed text is shorter than 2 or longer than 5, and true
\* for a string whose trimmed text has 2 to 5 characters, all Hangul syllables.
C7_TrimmedName ==
    called = "looks_like_korean_name" =>
        /\ arg.t # "str" => ret = FALSE
        /\ (arg.t = "str" /\ HasDigit(arg.v)) => ret = FALSE
        /\ (arg.t = "str" /\ (Len(strip(arg.v)) < 2 \/ Len(strip(arg.v)) > 5)) => ret = FALSE
        /\ (arg.t = "str" /\ Len(strip(arg.v)) \in 2..5 /\ AllHangul(strip(arg.v)))
              => ret = TRUE

\* a padded name of six characters, two of them Hangul, has been accepted
C7_Witness ==
    /\ called = "looks_like_korean_name"
    /\ arg = S(<<32, 44032, 55203, 32, 32, 32>>)
    /\ ret = TRUE

\* C8: is_class_num_format is true exactly when the trimmed input is digits, one
\* separator '/' or '-', digits (false for null); and parse_class_num_to_id
\* returns a non-empty ID exactly for the inputs is_class_num_format accepts.
C8_FormatIffParse ==
    /\ called = "is_class_num_format" => (ret = MatchesCode(arg))
    /\ called = "parse_class_num_to_id" => ((ret # <<>>) <=> is_class_num_format(arg))

\* the padded code " 1-1" has been accepted, and "1/" is a rejected input
C8_Witness ==
    /\ called = "is_class_num_format"
    /\ arg = S(<<32, 49, 45, 49>>)
    /\ ret = TRUE
    /\ ~is_class_num_format(S(<<49, 47>>))
    /\ parse_class_num_to_id(S(<<49, 47>>)) = <<>>

-----------------------------------------------------------------------------
(* Sheets.  A sheet is a sequence of rows of equal width, a row a sequence of  *)
(* cells (pd.read_excel(..., header=None, dtype=str)).  Row and column indices *)
(* are the code's: they count from 0.                                          *)

PreviewRowsAns == 20
PreviewRowsGrade == 30
MaxItem == 16
HeaderSkip == 3
SampleRows == 10
MinHits == 3
LeftScanStop == 4
RightScanStop == 4

Min(a, b) == IF a <= b THEN a ELSE b
Max(a, b) == IF a >= b THEN a ELSE b
SetMin(X) == CHOOSE x \in X : \A y \in X : x <= y
SetMax(X) == CHOOSE x \in X : \A y \in X : x >= y

\* len(df.columns)
NCols(g) == IF g = <<>> THEN 0 ELSE Len(g[1])
\* nrows=n and .iloc[:n]
FirstRows(g, n) == SubSeq(g, 1, Min(n, Len(g)))
\* skiprows=k
SkipRows(g, k) == SubSeq(g, k + 1, Len(g))

\* text in row.astype(str).values: some cell's text is exactly `text`
RowHas(row, text) == \E c \in 1..Len(row) : row[c].v = text
\* sub in str(val)
RECURSIVE Contains(_, _)
Contains(s, sub) ==
    IF Len(s) < Len(sub) THEN FALSE
    ELSE IF SubSeq(s, 1, Len(sub)) = sub THEN TRUE
    ELSE Contains(Tail(s), sub)

\* str.replace('.0', '')
RECURSIVE replace_dot0(_)
replace_dot0(s) ==
    IF s = <<>> THEN <<>>
    ELSE IF Len(s) >= 2 /\ s[1] = 46 /\ s[2] = 48 THEN replace_dot0(SubSeq(s, 3, Len(s)))
    ELSE <<Head(s)>> \o replace_dot0(Tail(s))

\* str.isdigit()
isdigit(s) == s # <<>> /\ \A i \in 1..Len(s) : IsDigit(s[i])

\* int(s) for a text of digits
RECURSIVE int_of(_)
int_of(s) == IF s = <<>> THEN 0 ELSE 10 * int_of(SubSeq(s, 1, Len(s) - 1)) + (s[Len(s)] - 48)

\* str(n) for n >= 0
RECURSIVE str_of(_)
str_of(n) == IF n < 10 THEN <<48 + n>> ELSE str_of(n \div 10) \o <<48 + (n % 10)>>

\* raw.iloc[:10, c]: the row numbers of the sample of column c
Sample(raw) == 1..Min(SampleRows, Len(raw))
\* sum(1 for n in sample_names if looks_like_korean_name(n))
korean_name_count(raw, c) ==
    Cardinality({r \in Sample(raw) : looks_like_korean_name(raw[r][c + 1])})
\* sum(1 for x in sample_vals if is_class_num_format(x))
valid_class_count(raw, c) ==
    Cardinality({r \in Sample(raw) : is_class_num_format(raw[r][c + 1])})

-----------------------------------------------------------------------------
(* Answer-sheet extractor: the body of the loop of load_answer_sheets *)

LabelAnswer == <<51221, 45813>>
LabelPoints == <<48176, 51216>>
LabelTotal == <<54633, 44228>>
LabelAverage == <<54217, 44512>>
AnnotationLabels ==
    {LabelAnswer, LabelPoints, LabelTotal, LabelAverage, <<78, 111, 110, 101>>, NanText}
UnknownPrefix == <<85, 110, 107, 110, 111, 119, 110, 95>>
Dot == <<46>>

\* the item numbers 1..16 that appear as cell values of a row
Anchors(row) == {k \in 1..MaxItem : RowHas(row, str_of(k))}
\* any 4 item numbers instead of 1, 2, 3 and 4
IsItemHeaderRow_any4(row) == Cardinality(Anchors(row)) >= 4

\* '1' in row_str and '2' in row_str and '3' in row_str and '4' in row_str
IsItemHeaderRow(row) ==
    /\ RowHas(row, <<49>>)
    /\ RowHas(row, <<50>>)
    /\ RowHas(row, <<51>>)
    /\ RowHas(row, <<52>>)

\* header_row_idx: the first preview row holding '1', '2', '3' and '4' (the loop
\* breaks there: that row maps at least these four item numbers), or -1
item_header_row(preview) ==
    LET hits == {r \in 0..(Len(preview) - 1) : IsItemHeaderRow(preview[r + 1])}
    IN IF hits = {} THEN -1 ELSE SetMin(hits)

\* the item number a header cell stands for, 0 if none
ItemNumAt(row, c) ==
    LET val_clean == replace_dot0(strip(row[c + 1].v))
    IN IF isdigit(val_clean) THEN int_of(val_clean) ELSE 0

\* item_col_map: each item number 1..16 found in the header row, with the column
\* of its first occurrence
item_col_map(row) ==
    LET cols(k) == {c \in 0..(Len(row) - 1) : ItemNumAt(row, c) = k}
    IN [k \in {j \in 1..MaxItem : cols(j) # {}} |-> SetMin(cols(k))]

\* name_col_idx of modules/data_loader.py
name_col_module(raw, item_start) ==
    LET cand == item_start - 2 IN
    IF cand >= 0 /\ cand < NCols(raw)
    THEN IF korean_name_count(raw, cand) >= MinHits THEN cand
         ELSE IF item_start - 1 >= 0
              THEN IF korean_name_count(raw, item_start - 1) >= MinHits
                   THEN item_start - 1
                   ELSE cand
              ELSE cand
    ELSE -1

\* name_col_idx of app.py
name_col_app(raw, item_start) ==
    LET cand == item_start - 2 IN
    IF cand >= 0 /\ cand < NCols(raw)
    THEN IF korean_name_count(raw, cand) < MinHits
         THEN IF item_start - 1 >= 0 /\ item_start - 1 < NCols(raw)
              THEN IF korean_name_count(raw, item_start - 1) >= MinHits
                   THEN item_start - 1
                   ELSE cand
              ELSE cand
         ELSE cand
    ELSE -1

\* the farthest instead of the nearest
class_num_col_farthest(raw, name_col) ==
    LET offs == {o \in 1..(Min(name_col + 1, LeftScanStop) - 1) :
                    /\ name_col - o >= 0
                    /\ name_col - o < NCols(raw)
                    /\ valid_class_count(raw, name_col - o) >= MinHits}
    IN IF offs = {} THEN -1 ELSE name_col - SetMax(offs)

\* class_num_col_idx: the nearest of the columns left of the name column
\* (offsets 1 .. min(name_col_idx + 1, 4) - 1) with at least 3 class/seat codes
class_num_col(raw, name_col) ==
    LET offs == {o \in 1..(Min(name_col + 1, LeftScanStop) - 1) :
                    /\ name_col - o >= 0
                    /\ name_col - o < NCols(raw)
                    /\ valid_class_count(raw, name_col - o) >= MinHits}
    IN IF offs = {} THEN -1 ELSE name_col - SetMin(offs)

\* q_idx of an item number: its column in item_col_map, or the sequential offset
\* from the column of item 1 when the header row does not hold the number
item_q_idx(map, item_start, item_num) ==
    IF item_num \in DOMAIN map THEN map[item_num] ELSE item_start + (item_num - 1)

NotAnnotation(row) == ~(row.Name.t = "str" /\ row.Name.v \in AnnotationLabels)

\* the frame appended to all_ans for a sheet whose item header row was found
\* (rev: the revision, "module" or "app")
item_header_frame(g, hdr, rev) ==
    LET raw == SkipRows(g, hdr + HeaderSkip)
        map == item_col_map(g[hdr + 1])
        item_start == map[1]
        name_col == IF rev = "module" THEN name_col_module(raw, item_start)
                    ELSE name_col_app(raw, item_start)
        class_col == class_num_col(raw, name_col)
        w == NCols(raw)
        q_idx(k) == item_q_idx(map, item_start, k)
        rows == [r \in 1..Len(raw) |->
                    [ID |-> IF class_col # -1 /\ class_col < w
                            THEN S(parse_class_num_to_id(raw[r][class_col + 1]))
                            ELSE S(<<>>),
                     Name |-> IF name_col # -1 /\ name_col < w
                              THEN raw[r][name_col + 1]
                              ELSE S(UnknownPrefix \o str_of(r - 1)),
                     Total_Score |-> raw[r][w],
                     Item |-> [k \in 1..MaxItem |->
                                  IF q_idx(k) < w THEN raw[r][q_idx(k) + 1] ELSE S(Dot)]]]
    IN SelectSeq(rows, NotAnnotation)


-----------------------------------------------------------------------------
(* app.py only: the name-keyword fallback of the answer-sheet loop *)

KwSeongmyeong == <<49457, 47749>>
KwIreum == <<51060, 47492>>
KwBeonho == <<48264, 54840>>
KwID == <<73, 68>>
KwJeomsu == <<51216, 49688>>
KwTotal == <<84, 111, 116, 97, 108>>

HasNameKw(c) == Contains(c.v, KwSeongmyeong) \/ Contains(c.v, KwIreum)
HasIdKw(c) == Contains(c.v, KwBeonho) \/ Contains(c.v, KwID)
HasScoreKw(c) == Contains(c.v, KwJeomsu) \/ Contains(c.v, KwTotal) \/ Contains(c.v, LabelTotal)

\* header_row_idx_fallback: the first preview row with a name keyword in some cell, or -1
fallback_header_row(preview) ==
    LET hits == {r \in 0..(Len(preview) - 1) :
                    \E c \in 1..Len(preview[r + 1]) : HasNameKw(preview[r + 1][c])}
    IN IF hits = {} THEN -1 ELSE SetMin(hits)

\* the value left in an index that every hit of the loop over the row overwrites
LastOf(hits) == IF hits = {} THEN -1 ELSE SetMax(hits)
\* name_col_idx_fallback, id_col_idx, score_col_idx_fallback after the loop over the row
name_col_idx_fallback(row) == LastOf({c \in 0..(Len(row) - 1) : HasNameKw(row[c + 1])})
id_col_idx(row) == LastOf({c \in 0..(Len(row) - 1) : HasIdKw(row[c + 1])})
score_col_idx_fallback(row) == LastOf({c \in 0..(Len(row) - 1) : HasScoreKw(row[c + 1])})

\* data.iloc[:, k] while the Item columns are being added: the columns are those
\* of raw, then 'ID' when it was added from data.index, then Item_1, Item_2, ...,
\* Item_j being itself a copy of column start_col + j - 1
RECURSIVE fallback_column(_, _, _, _, _)
fallback_column(raw, idAdded, start_col, r, k) ==
    LET w == NCols(raw)
        j == k - w - idAdded + 1
    IN IF k < w THEN raw[r][k + 1]
       ELSE IF idAdded = 1 /\ k = w THEN N(str_of(r - 1))
       ELSE IF start_col + j - 1 < w + idAdded + (j - 1)
            THEN fallback_column(raw, idAdded, start_col, r, start_col + j - 1)
            ELSE S(Dot)

\* the frame appended to all_ans by the fallback
fallback_frame(g, hdr) ==
    LET raw == SkipRows(g, hdr + 1)
        w == NCols(raw)
        name_col == name_col_idx_fallback(g[hdr + 1])
        id_col == id_col_idx(g[hdr + 1])
        score_kw == score_col_idx_fallback(g[hdr + 1])
        score_col == IF score_kw = -1 THEN w - 1 ELSE score_kw
        idAdded == IF id_col = -1 THEN 1 ELSE 0
        start_col == name_col + 2
        \* start_col + i - 1 < len(data.columns), data having w + idAdded + (i - 1) columns
        item(r, i) ==
            IF start_col + i - 1 < w + idAdded + (i - 1)
            THEN fallback_column(raw, idAdded, start_col, r, start_col + i - 1)
            ELSE S(Dot)
        rows == [r \in 1..Len(raw) |->
                    [ID |-> IF id_col # -1 THEN raw[r][id_col + 1] ELSE N(str_of(r - 1)),
                     Name |-> raw[r][name_col + 1],
                     Total_Score |-> raw[r][score_col + 1],
                     Item |-> [i \in 1..MaxItem |-> item(r, i)]]]
    IN SelectSeq(rows, NotAnnotation)


-----------------------------------------------------------------------------
(* Grade-roster extractor: the body of the loop of load_grade_reports *)

KwSeongchwido == <<49457, 52712, 46020>>
KwDeunggeup == <<46321, 44553>>

HasGradeKw(c) == Contains(c.v, KwSeongchwido) \/ Contains(c.v, KwDeunggeup)

\* the first of the cells `hits`, rows first: <<row, column>>, or <<-1, -1>>
FirstOf(hits) ==
    LET r0 == SetMin({rc[1] : rc \in hits})
    IN IF hits = {} THEN <<-1, -1>>
       ELSE <<r0, SetMin({rc[2] : rc \in {x \in hits : x[1] = r0}})>>
Cells(preview) == (0..(Len(preview) - 1)) \X (0..(NCols(preview) - 1))
\* <<name_row_idx, name_col_idx>> and <<grade_row_idx, grade_col_idx>> after the search
name_cell(preview) ==
    FirstOf({rc \in Cells(preview) : HasNameKw(preview[rc[1] + 1][rc[2] + 1])})
grade_cell(preview) ==
    FirstOf({rc \in Cells(preview) : HasGradeKw(preview[rc[1] + 1][rc[2] + 1])})

\* looks_like_name of load_grade_reports: at least 2 characters, no digit
looks_like_name(c) ==
    IF isna(c) \/ Len(c.v) < 2 THEN FALSE
    ELSE ~\E i \in 1..Len(c.v) : IsDigit(c.v[i])

\* sum(looks_like_name(x) for x in sample_data)
valid_count(g_raw, c) ==
    Cardinality({r \in Sample(g_raw) : looks_like_name(g_raw[r][c + 1])})

\* name_col_idx after the correction: moved right by the first offset 1..3 whose
\* column has at least 3 name-like cells, when its own column has fewer
corrected_name_col(g_raw, name_col) ==
    IF valid_count(g_raw, name_col) < MinHits
    THEN LET offs == {o \in 1..(RightScanStop - 1) :
                        /\ name_col + o < NCols(g_raw)
                        /\ valid_count(g_raw, name_col + o) >= MinHits}
         IN IF offs = {} THEN name_col ELSE name_col + SetMin(offs)
    ELSE name_col

grade_located_either(name_col, grade_col) == name_col # -1 \/ grade_col # -1
\* if name_col_idx != -1 and grade_col_idx != -1
grade_located(name_col, grade_col) == name_col # -1 /\ grade_col # -1

\* row.iloc[c]: a negative position counts from the end
iloc(row, c) == IF c < 0 THEN row[Len(row) + c + 1] ELSE row[c + 1]

\* the frame appended to all_grades for a roster whose two header cells were found
roster_frame(g, name_rc, grade_rc) ==
    LET g_raw == SkipRows(g, Max(name_rc[1], grade_rc[1]) + 1)
        name_col == corrected_name_col(g_raw, name_rc[2])
        grade_col == grade_rc[2]
        class_col == IF name_col > 0 THEN name_col - 1 ELSE -1
        with_id == /\ class_col >= 0
                   /\ class_col < NCols(g_raw)
                   /\ valid_class_count(g_raw, class_col) >= MinHits
    IN [r \in 1..Len(g_raw) |->
           [Name |-> g_raw[r][name_col + 1],
            Achievement |-> iloc(g_raw[r], grade_col),
            ID |-> IF with_id THEN S(parse_class_num_to_id(g_raw[r][class_col + 1]))
                   ELSE S(<<>>)]]

-----------------------------------------------------------------------------
(* Tables and the reconciler *)

\* pd.concat
RECURSIVE Concat(_)
Concat(frames) == IF frames = <<>> THEN <<>> ELSE Head(frames) \o Concat(Tail(frames))

HasName(row) == ~isna(row.Name)
\* df.dropna(subset=['Name']); df['Name'] = df['Name'].astype(str).str.strip()
clean_names(rows) ==
    LET kept == SelectSeq(rows, HasName)
    IN [i \in 1..Len(kept) |-> [kept[i] EXCEPT !.Name = S(strip(kept[i].Name.v))]]

\* set(df['Name'].unique())
Names(rows) == {rows[i].Name : i \in 1..Len(rows)}

\* the ID of a joined row: row['ID'] if row['ID'] and str(row['ID']).strip() else row['ID_grade']
resolve_id(id, id_grade) ==
    IF truthy(id) /\ strip(id.v) # <<>> THEN id ELSE id_grade

JoinedRow(a, g) ==
    [ID |-> resolve_id(a.ID, g.ID), Name |-> a.Name, Total_Score |-> a.Total_Score,
     Item |-> a.Item, Achievement |-> g.Achievement]

\* the rows of the right table matching one left row, in the right table's order
RECURSIVE MatchRows(_, _)
MatchRows(a, right) ==
    IF right = <<>> THEN <<>>
    ELSE (IF Head(right).Name = a.Name THEN <<JoinedRow(a, Head(right))>> ELSE <<>>)
         \o MatchRows(a, Tail(right))

\* a row of how='right' for a roster row without answer-sheet row
RightRow(g) ==
    [ID |-> resolve_id(NaN, g.ID), Name |-> g.Name, Total_Score |-> NaN,
     Item |-> [k \in 1..MaxItem |-> NaN], Achievement |-> g.Achievement]

RECURSIVE LeftMatches(_, _)
LeftMatches(left, g) ==
    IF left = <<>> THEN <<>>
    ELSE (IF Head(left).Name = g.Name THEN <<JoinedRow(Head(left), g)>> ELSE <<>>)
         \o LeftMatches(Tail(left), g)

\* the join with how='right'
RECURSIVE right_join(_, _)
right_join(left, right) ==
    IF right = <<>> THEN <<>>
    ELSE (IF LeftMatches(left, Head(right)) = <<>> THEN <<RightRow(Head(right))>>
          ELSE LeftMatches(left, Head(right)))
         \o right_join(left, Tail(right))

\* pd.merge(ans_df, grade[['Name', 'Achievement', 'ID']], on='Name', how='inner',
\*          suffixes=('', '_grade')) followed by the ID resolution
RECURSIVE inner_join(_, _)
inner_join(left, right) ==
    IF left = <<>> THEN <<>>
    ELSE MatchRows(Head(left), right) \o inner_join(Tail(left), right)

BandE == <<69>>

\* merged = grade.copy(); merged['Total_Score'] = 0; merged['Item_i'] = '.'
roster_only(grade) ==
    [i \in 1..Len(grade) |->
        [ID |-> grade[i].ID, Name |-> grade[i].Name, Total_Score |-> N(<<48>>),
         Item |-> [k \in 1..MaxItem |-> S(Dot)], Achievement |-> grade[i].Achievement]]

\* merged = ans_df.copy(); merged['Achievement'] = 'E'
answers_only(ans) ==
    [i \in 1..Len(ans) |->
        [ID |-> ans[i].ID, Name |-> ans[i].Name, Total_Score |-> ans[i].Total_Score,
         Item |-> ans[i].Item, Achievement |-> S(BandE)]]

\* pd.to_numeric(x, errors='coerce') without the fillna(0)
to_numeric_coerce(c) ==
    IF c.t = "int" THEN c
    ELSE IF c.t = "str" /\ isdigit(strip(c.v)) THEN N(str_of(int_of(strip(c.v))))
    ELSE NaN

\* pd.to_numeric(x, errors='coerce') then fillna(0), for a cell that is missing,
\* an integer, or a text: a text of digits (surrounding whitespace allowed) is its
\* number, any other text is not a number and becomes 0
to_numeric_or_0(c) ==
    IF c.t = "int" THEN c
    ELSE IF c.t = "str" /\ isdigit(strip(c.v)) THEN N(str_of(int_of(strip(c.v))))
    ELSE N(<<48>>)

HasAchievement(row) == ~isna(row.Achievement)

\* merged['Total_Score'] = pd.to_numeric(...).fillna(0); merged.dropna(subset=['Achievement'])
finish_merged(merged) ==
    LET num == [i \in 1..Len(merged) |->
                   [merged[i] EXCEPT !.Total_Score = to_numeric_or_0(merged[i].Total_Score)]]
    IN SelectSeq(num, HasAchievement)


-----------------------------------------------------------------------------
(* The spreadsheets handed to the loader *)

MaxAnsFiles == 2
MaxGradeFiles == 2

NameK == <<44608, 44032>>
NameL == <<51060, 44032>>
NameP == <<48149, 44032>>

TxtClassSeat == <<48152, 47, 48264, 54840>>
TxtItem == <<47928, 54637>>
TxtRoster == <<49457, 51201, 51068, 46988, 54364>>

Stu(name, code, ans, total) == [name |-> name, code |-> code, ans |-> ans, total |-> total]

AnsAll == <<S(Dot), S(Dot), S(Dot), S(Dot)>>
AnsOne == <<S(<<49>>), S(Dot), S(<<53>>), S(<<49>>)>>
AnsThree == <<S(Dot), S(Dot), S(<<53>>), S(Dot)>>

\* three students with class/seat codes
StudentsCoded ==
    <<Stu(S(NameK), S(<<49, 47, 49>>), AnsAll, S(<<52, 48>>)),
      Stu(S(NameL), S(<<49, 47, 50>>), AnsOne, S(<<49, 48>>)),
      Stu(S(NameP), S(<<49, 47, 51>>), AnsThree, S(<<51, 48>>))>>
\* two students without codes
StudentsPlain ==
    <<Stu(S(NameK), NaN, AnsAll, S(<<52, 48>>)),
      Stu(S(NameL), NaN, AnsOne, S(<<49, 48>>))>>
\* the same student twice, once with a padded name
StudentsTwice ==
    <<Stu(S(<<32>> \o NameK \o <<32>>), NaN, AnsAll, S(<<52, 48>>)),
      Stu(S(NameK), NaN, AnsThree, S(<<51, 48>>))>>
\* a student without total score, the average row and an empty row
StudentsAndAverage ==
    <<Stu(S(NameP), NaN, AnsThree, NaN),
      Stu(S(LabelAverage), NaN, <<S(<<49>>), S(<<49>>), S(<<49>>), S(<<49>>)>>, S(<<50, 55>>)),
      Stu(NaN, NaN, <<NaN, NaN, NaN, NaN>>, NaN)>>

\* a student whose total-score cell is a text that is no number, and an average
\* row whose label is written with a leading blank
TxtAbsent == <<44208, 49884>>
StudentsAbsent ==
    <<Stu(S(NameL), NaN, AnsOne, S(TxtAbsent)),
      Stu(S(<<32>> \o LabelAverage), NaN, <<S(Dot), S(<<49>>), S(Dot), S(<<49>>)>>, S(<<50, 48>>))>>

\* an answer sheet of 4 items: a title row, the header row, the answer-key and
\* point-value rows, then one row per student.  hdr is the kind of header row:
\* "items" (item numbers 1..4), "namekw" (name, number and score keywords, no item
\* numbers), "nameonly" (a name keyword alone), "none" (no anchor at all)
AnswerSheet(d) ==
    LET header ==
            CASE d.hdr = "items" ->
                    <<S(TxtClassSeat), S(KwSeongmyeong), NaN,
                      S(<<49>>), S(<<50>>), S(<<51>>), S(<<52>>), S(KwJeomsu)>>
              [] d.hdr = "namekw" ->
                    <<S(TxtClassSeat), S(KwSeongmyeong), NaN,
                      S(TxtItem), S(TxtItem), S(TxtItem), S(TxtItem), S(KwJeomsu)>>
              [] d.hdr = "nameonly" ->
                    <<NaN, S(KwIreum), NaN,
                      S(TxtItem), S(TxtItem), S(TxtItem), S(TxtItem), NaN>>
              [] OTHER ->
                    <<S(<<78, 111>>), S(<<78, 97, 109, 101>>), NaN,
                      S(<<81, 49>>), S(<<81, 49>>), S(<<81, 49>>), S(<<81, 49>>),
                      S(<<83, 99, 111, 114, 101>>)>>
        title == <<S(TxtItem), NaN, NaN, NaN, NaN, NaN, NaN, NaN>>
        key == <<NaN, S(LabelAnswer), NaN, S(<<50>>), S(<<53>>), S(<<51>>), S(<<50>>), NaN>>
        points == <<NaN, S(LabelPoints), NaN, S(<<49, 48>>), S(<<49, 48>>), S(<<49, 48>>),
                    S(<<49, 48>>), S(<<52, 48>>)>>
        row(s) == <<s.code, s.name, NaN>> \o s.ans \o <<s.total>>
    IN <<title, header, key, points>> \o [i \in 1..Len(d.studs) |-> row(d.studs[i])]

AnsFamily ==
    {[hdr |-> "items", studs |-> s] :
        s \in {StudentsCoded, StudentsPlain, StudentsTwice, StudentsAndAverage,
               StudentsAbsent}}
    \cup {[hdr |-> "namekw", studs |-> StudentsPlain],
          [hdr |-> "nameonly", studs |-> StudentsPlain],
          [hdr |-> "none", studs |-> StudentsPlain]}

Entry(name, code, band) == [name |-> name, code |-> code, band |-> band]

\* three students with class/seat codes (other codes than on the answer sheets)
RosterCoded ==
    <<Entry(S(NameK), S(<<50, 47, 49>>), S(<<65>>)),
      Entry(S(NameL), S(<<50, 47, 50>>), S(<<66>>)),
      Entry(S(NameP), S(<<50, 47, 51>>), S(<<67>>))>>
RosterPlain ==
    <<Entry(S(NameK), NaN, S(<<65>>)),
      Entry(S(NameL), NaN, S(<<66>>))>>
\* the same name twice
RosterTwice ==
    <<Entry(S(NameK), NaN, S(<<65>>)),
      Entry(S(NameK), NaN, S(<<66>>))>>
\* a student without band, a padded name
RosterGaps ==
    <<Entry(S(NameL), NaN, NaN),
      Entry(S(<<32>> \o NameP), NaN, S(<<67>>))>>

\* a band that belongs to no band set
RosterOther ==
    <<Entry(S(NameK), NaN, S(<<80>>))>>

\* a grade roster: a title row, the header row, one row per student.  kw says which
\* header keywords the sheet carries: "both", "name" (no achievement keyword), "none"
Roster(d) ==
    LET header ==
            CASE d.kw = "both" -> <<S(TxtClassSeat), S(KwSeongmyeong), S(KwSeongchwido)>>
              [] d.kw = "name" -> <<S(TxtClassSeat), S(KwSeongmyeong), S(<<76, 118>>)>>
              [] OTHER -> <<S(<<78, 111>>), S(<<78, 97, 109, 101>>), S(<<76, 118>>)>>
        title == <<S(TxtRoster), NaN, NaN>>
        row(e) == <<e.code, e.name, e.band>>
    IN <<title, header>> \o [i \in 1..Len(d.rows) |-> row(d.rows[i])]

GradeFamily ==
    {[kw |-> "both", rows |-> r] : r \in {RosterCoded, RosterPlain, RosterTwice, RosterGaps, RosterOther}}
    \cup {[kw |-> "name", rows |-> RosterPlain], [kw |-> "none", rows |-> RosterPlain]}


-----------------------------------------------------------------------------
(* load_and_merge_data, step by step *)

\* return None, None executed at `at`
ReturnNone(at) == [kind |-> "none", at |-> at, rows |-> <<>>]
ReturnNoneAtMerge == [kind |-> "none", at |-> "merge", rows |-> <<>>]
\* return info, pd.DataFrame()
ReturnEmpty == [kind |-> "empty", at |-> "merge", rows |-> <<>>]
\* return info, merged.dropna(subset=['Achievement'])
ReturnTable(rows) == [kind |-> "table", at |-> "merge", rows |-> rows]

Msg(what, n) == [what |-> what, n |-> n]

Init ==
    /\ arg = NaN
    /\ called = "idle"
    /\ ret = NaN
    /\ impl \in {"module", "app"}
    /\ pc = "answers"
    /\ fed_ans = <<>>
    /\ fed_grade = <<>>
    /\ all_ans = <<>>
    /\ all_grades = <<>>
    /\ ans_df = <<>>
    /\ grade_df = <<>>
    /\ diag = {}
    /\ result = Running

\* one iteration of `for f in ans_files`
LoadAnswerFile ==
    /\ pc = "answers"
    /\ Len(fed_ans) < MaxAnsFiles
    /\ \E d \in AnsFamily :
        LET g == AnswerSheet(d)
            preview == FirstRows(g, PreviewRowsAns)
            hdr == item_header_row(preview)
            fb == fallback_header_row(preview)
            n == Len(fed_ans) + 1
        IN /\ fed_ans' = Append(fed_ans, d)
           /\ IF hdr # -1
              THEN /\ all_ans' = Append(all_ans,
                                    item_header_frame(g, hdr, impl))
                   /\ UNCHANGED <<pc, diag, result>>
              ELSE IF impl = "module"
              THEN \* st.warning(...); continue
                   /\ diag' = diag \cup {Msg("no_item_header", n)}
                   /\ UNCHANGED <<pc, all_ans, result>>
              ELSE IF fb = -1
              THEN \* st.warning(...); st.error(...); return None, None
                   /\ diag' = diag \cup {Msg("no_item_header", n), Msg("no_name_header", n)}
                   /\ result' = ReturnNone("answers_loop")
                   /\ pc' = "done"
                   /\ UNCHANGED all_ans
              ELSE /\ diag' = diag \cup {Msg("no_item_header", n)}
                   /\ all_ans' = Append(all_ans, fallback_frame(g, fb))
                   /\ UNCHANGED <<pc, result>>
    /\ UNCHANGED <<impl, fed_grade, all_grades, ans_df, grade_df>>
    /\ UNCHANGED nvars

\* after the loop: pd.concat(all_ans), dropna(subset=['Name']), str.strip()
EndAnswerSheets ==
    /\ pc = "answers"
    /\ IF impl = "app" /\ all_ans = <<>>
       THEN \* if not all_ans: return None, None
            /\ result' = ReturnNone("answers_end")
            /\ pc' = "done"
            /\ UNCHANGED ans_df
       ELSE /\ ans_df' = clean_names(Concat(all_ans))
            /\ pc' = "grades"
            /\ UNCHANGED result
    /\ UNCHANGED <<impl, fed_ans, fed_grade, all_ans, all_grades, grade_df, diag>>
    /\ UNCHANGED nvars

\* one iteration of `for f in grade_files`
LoadGradeFile ==
    /\ pc = "grades"
    /\ Len(fed_grade) < MaxGradeFiles
    /\ \E d \in GradeFamily :
        LET g == Roster(d)
            preview == FirstRows(g, PreviewRowsGrade)
            name_rc == name_cell(preview)
            grade_rc == grade_cell(preview)
            n == Len(fed_grade) + 1
        IN /\ fed_grade' = Append(fed_grade, d)
           /\ IF grade_located(name_rc[2], grade_rc[2])
              THEN /\ all_grades' = Append(all_grades, roster_frame(g, name_rc, grade_rc))
                   /\ UNCHANGED <<pc, diag, result>>
              ELSE IF impl = "module"
              THEN \* st.error(...), then the next file
                   /\ diag' = diag \cup {Msg("no_grade_header", n)}
                   /\ UNCHANGED <<pc, all_grades, result>>
              ELSE \* st.error(...); return None, None
                   /\ diag' = diag \cup {Msg("no_grade_header", n)}
                   /\ result' = ReturnNone("grades_loop")
                   /\ pc' = "done"
                   /\ UNCHANGED all_grades
    /\ UNCHANGED <<impl, fed_ans, all_ans, ans_df, grade_df>>
    /\ UNCHANGED nvars

\* after the loop: pd.concat(all_grades), dropna(subset=['Name']), str.strip()
EndGradeReports ==
    /\ pc = "grades"
    /\ grade_df' = clean_names(Concat(all_grades))
    /\ pc' = "merge"
    /\ UNCHANGED <<impl, fed_ans, fed_grade, all_ans, all_grades, ans_df, diag, result>>
    /\ UNCHANGED nvars

\* len(ans_students - grade_students)
Excluded(ans, grade) == Names(ans) \ Names(grade)

\* the three-way choice of the source tables; modules/data_loader.py tests whether
\* a table has rows, app.py whether a file was loaded
NoAnswers == IF impl = "module" THEN ans_df = <<>> ELSE all_ans = <<>>
NoGrades == IF impl = "module" THEN grade_df = <<>> ELSE all_grades = <<>>

\* merged, before the final clean-up
MergedTable ==
    IF NoAnswers THEN roster_only(grade_df)
    ELSE IF NoGrades THEN answers_only(ans_df)
    ELSE inner_join(ans_df, grade_df)

\* step 4 of load_and_merge_data, to its return
Merge ==
    /\ pc = "merge"
    /\ pc' = "done"
    /\ IF NoAnswers /\ NoGrades
       THEN /\ diag' = diag \cup {Msg("no_data", 0)}
            /\ result' = ReturnNone("merge")
       ELSE LET both == ~NoAnswers /\ ~NoGrades
                told == IF both /\ Excluded(ans_df, grade_df) # {}
                        THEN {Msg("excluded", Cardinality(Excluded(ans_df, grade_df)))}
                        ELSE {}
            IN IF MergedTable = <<>>
               THEN IF impl = "app" /\ NoGrades
                    THEN \* len(grade) with grade unbound: NameError, caught by the except
                         /\ diag' = diag \cup told \cup {Msg("empty_merge", 0), Msg("exception", 0)}
                         /\ result' = ReturnNone("merge")
                    ELSE /\ diag' = diag \cup told \cup {Msg("empty_merge", 0)}
                         /\ result' = ReturnEmpty
               ELSE /\ diag' = diag \cup told
                    /\ result' = ReturnTable(finish_merged(MergedTable))
    /\ UNCHANGED <<impl, fed_ans, fed_grade, all_ans, all_grades, ans_df, grade_df>>
    /\ UNCHANGED nvars

Next ==
    \/ LoadAnswerFile
    \/ EndAnswerSheets
    \/ LoadGradeFile
    \/ EndGradeReports
    \/ Merge

Spec == Init /\ [][Next]_vars


-----------------------------------------------------------------------------
(* Properties of the reconciler (checked under Spec) *)

Returned == pc = "done" /\ result.kind \in {"table", "empty"}
BothPresent == ans_df # <<>> /\ grade_df # <<>>
RowNames(rows) == {rows[i].Name : i \in 1..Len(rows)}
NoNameTwice(rows) == \A i, j \in 1..Len(rows) : rows[i].Name = rows[j].Name => i = j

\* C1: the merged table never has more rows than there are distinct trimmed names
\* in the contributing tables, and when both tables are non-empty it has exactly
\* as many rows as there are names occurring in both.
C1_Original ==
    Returned =>
        /\ Len(result.rows) <= Cardinality(Names(ans_df) \cup Names(grade_df))
        /\ BothPresent =>
               Len(result.rows) = Cardinality(Names(ans_df) \cap Names(grade_df))

\* C2: when both tables are non-empty every merged row carries a name that occurs
\* in both of them; the students found only on the answer sheets are counted in
\* the exclusion message, and no roster-only student is in the output.
C2_RosterDecidesMembership ==
    (Returned /\ BothPresent) =>
        /\ RowNames(result.rows) \subseteq Names(ans_df) \cap Names(grade_df)
        /\ RowNames(result.rows) \cap Excluded(ans_df, grade_df) = {}
        /\ RowNames(result.rows) \cap (Names(grade_df) \ Names(ans_df)) = {}
        /\ Excluded(ans_df, grade_df) # {} =>
               Msg("excluded", Cardinality(Excluded(ans_df, grade_df))) \in diag
        /\ Excluded(ans_df, grade_df) = {} =>
               ~\E m \in diag : m.what = "excluded"

\* a run in both-present mode with a student only on the answer sheets, a student
\* only on the roster, and a joined student in the output
C2_Witness ==
    /\ Returned
    /\ BothPresent
    /\ Excluded(ans_df, grade_df) # {}
    /\ Names(grade_df) \ Names(ans_df) # {}
    /\ result.rows # <<>>

\* C3: names are deduplicated when the per-file rows are unioned, and the merged
\* table has exactly one row per distinct trimmed name of the authoritative
\* source, so no two merged rows share a name.
C3_Original ==
    /\ pc \in {"grades", "merge", "done"} => NoNameTwice(ans_df)
    /\ pc \in {"merge", "done"} => NoNameTwice(grade_df)
    /\ Returned => NoNameTwice(result.rows)

\* an ID that is present and not blank
IdGiven(id) == ~isna(id) /\ strip(id.v) # <<>>

\* C4: in both-present mode each joined row carries the answer-sheet ID when that
\* ID is non-empty after trimming, and the roster ID of the same student otherwise.
C4_Original ==
    (Returned /\ BothPresent) =>
        \A i \in 1..Len(result.rows) :
            \E a \in 1..Len(ans_df), g \in 1..Len(grade_df) :
                /\ ans_df[a].Name = result.rows[i].Name
                /\ grade_df[g].Name = result.rows[i].Name
                /\ ans_df[a].Item = result.rows[i].Item
                /\ grade_df[g].Achievement = result.rows[i].Achievement
                /\ result.rows[i].ID =
                       IF IdGiven(ans_df[a].ID) THEN ans_df[a].ID ELSE grade_df[g].ID

\* an answer sheet with neither an item header row nor a name-keyword row
MalformedAnswerSheet(d) ==
    LET preview == FirstRows(AnswerSheet(d), PreviewRowsAns)
    IN item_header_row(preview) = -1 /\ fallback_header_row(preview) = -1

\* the answer-sheet table made of the rows of the well-formed files of the batch
RECURSIVE WellFormedRows(_)
WellFormedRows(fed) ==
    IF fed = <<>> THEN <<>>
    ELSE LET d == Head(fed)
             g == AnswerSheet(d)
             preview == FirstRows(g, PreviewRowsAns)
             hdr == item_header_row(preview)
         IN (IF MalformedAnswerSheet(d) THEN <<>>
             ELSE IF hdr # -1
                  THEN item_header_frame(g, hdr, impl)
                  ELSE IF impl = "app" THEN fallback_frame(g, fallback_header_row(preview))
                       ELSE <<>>)
            \o WellFormedRows(Tail(fed))

\* C9: a malformed answer-sheet file of a batch gives a warning and no rows, the
\* load does not return without data because of it, and the rows of the other
\* files of the batch make up the answer-sheet table.
C9_Original ==
    \A n \in 1..Len(fed_ans) :
        MalformedAnswerSheet(fed_ans[n]) =>
            /\ Msg("no_item_header", n) \in diag
            /\ result.at # "answers_loop"
            /\ (pc \in {"grades", "merge", "done"} /\ result.at # "answers_end") =>
                   ans_df = clean_names(WellFormedRows(fed_ans))

\* a roster whose name and achievement header cells cannot both be located
UninterpretableRoster(d) ==
    LET preview == FirstRows(Roster(d), PreviewRowsGrade)
    IN ~grade_located(name_cell(preview)[2], grade_cell(preview)[2])

\* the roster table made of the rows of the interpretable files
RECURSIVE InterpretableRows(_)
InterpretableRows(fed) ==
    IF fed = <<>> THEN <<>>
    ELSE LET d == Head(fed)
             g == Roster(d)
             preview == FirstRows(g, PreviewRowsGrade)
         IN (IF UninterpretableRoster(d) THEN <<>>
             ELSE roster_frame(g, name_cell(preview), grade_cell(preview)))
            \o InterpretableRows(Tail(fed))

\* C10: a roster file that cannot be interpreted is skipped and the other roster
\* files are used; when no roster file could be used and answer-sheet students
\* are present, the run returns the answer-sheet students (answer-sheets-only mode).
C10_Original ==
    (\E n \in 1..Len(fed_grade) : UninterpretableRoster(fed_grade[n])) =>
        /\ result.at # "grades_loop"
        /\ pc \in {"merge", "done"} => grade_df = clean_names(InterpretableRows(fed_grade))
        /\ (/\ pc = "done"
            /\ \A n \in 1..Len(fed_grade) : UninterpretableRoster(fed_grade[n])
            /\ ans_df # <<>>) =>
               /\ result.kind = "table"
               /\ result.rows = finish_merged(answers_only(ans_df))
\* the n-th roster file of the batch was rejected with st.error
RosterRejected(n) == Msg("no_grade_header", n) \in diag
NameAnchor(d) == name_cell(FirstRows(Roster(d), PreviewRowsGrade))[2] # -1
GradeAnchor(d) == grade_cell(FirstRows(Roster(d), PreviewRowsGrade))[2] # -1

\* C11 as stated: a roster file is rejected only if neither a name-keyword cell nor
\* an achievement-keyword cell is found in the 30-row preview.
C11_Original ==
    \A n \in 1..Len(fed_grade) :
        RosterRejected(n) => (~NameAnchor(fed_grade[n]) /\ ~GradeAnchor(fed_grade[n]))

\* C11: a roster file is rejected exactly when at least one of the two anchors (the
\* name-keyword cell, the achievement-keyword cell) is missing from the 30-row
\* preview; a file with only one anchor is rejected too.
C11_RejectedUnlessBothAnchors ==
    \A n \in 1..Len(fed_grade) :
        RosterRejected(n) <=> (~NameAnchor(fed_grade[n]) \/ ~GradeAnchor(fed_grade[n]))

\* a roster with the name anchor but without the achievement anchor was rejected
C11_Witness ==
    \E n \in 1..Len(fed_grade) :
        /\ NameAnchor(fed_grade[n])
        /\ ~GradeAnchor(fed_grade[n])
        /\ RosterRejected(n)
\* roster-only mode: no answer-sheet row, at least one roster row
RosterOnly == ans_df = <<>> /\ grade_df # <<>>
\* (df[col].astype(str) == '.'): the response counts as answered correctly
CountsAsCorrect(c) == c.v = Dot

\* C12: in roster-only mode the reconciler returns one record per roster row, with
\* total score 0 and every item response 1..16 set to a "no response" token that
\* is not the "correct" marker, so that no item counts as answered correctly.
C12_Original ==
    (pc = "done" /\ RosterOnly) =>
        /\ result.kind = "table"
        /\ Len(result.rows) = Len(grade_df)
        /\ \A i \in 1..Len(result.rows) :
               /\ result.rows[i].Total_Score = N(<<48>>)
               /\ \A k \in 1..MaxItem : ~CountsAsCorrect(result.rows[i].Item[k])
\* level_options: the four band sets that can be configured, each from the highest
\* band to the lowest
BandNotYet == <<48120, 46020, 45804>>
level_options ==
    {<<<<65>>, <<66>>, <<67>>>>,
     <<<<65>>, <<66>>, <<67>>, BandNotYet>>,
     <<<<65>>, <<66>>, <<67>>, <<68>>, BandE>>,
     <<<<65>>, <<66>>, <<67>>, <<68>>, BandE, BandNotYet>>}
BandsOf(levels) == {levels[i] : i \in 1..Len(levels)}
LowestBand(levels) == levels[Len(levels)]
AnswersOnly == ans_df # <<>> /\ grade_df = <<>>

\* C13: whichever band set is configured, every record of the merged table has a
\* band of that set (a roster band outside the set never reaches the output), and
\* in answer-sheets-only mode the band assigned is the lowest band of the set.
C13_Original ==
    Returned =>
        \A levels \in level_options :
            /\ \A i \in 1..Len(result.rows) :
                   /\ result.rows[i].Achievement.t = "str"
                   /\ result.rows[i].Achievement.v \in BandsOf(levels)
            /\ AnswersOnly =>
                   \A i \in 1..Len(result.rows) :
                       result.rows[i].Achievement.v = LowestBand(levels)
\* no name of the answer-sheet table occurs in the roster
NoSharedName == Names(ans_df) \cap Names(grade_df) = {}

\* C14: when both tables are non-empty but share no name, load_and_merge_data
\* returns the item-definition table with an empty student table and a diagnostic;
\* it neither returns (None, None) nor ends in the exception handler.
C14_EmptyJoinReturnsEmptyTable ==
    (pc = "done" /\ BothPresent /\ NoSharedName) =>
        /\ result.kind = "empty"
        /\ result.rows = <<>>
        /\ Msg("empty_merge", 0) \in diag
        /\ Msg("exception", 0) \notin diag

\* a run, in each revision, whose two tables are non-empty and share no name
C14_Witness ==
    /\ pc = "done"
    /\ BothPresent
    /\ NoSharedName
    /\ Excluded(ans_df, grade_df) = Names(ans_df)
    /\ result.kind = "empty"
\* the total-score cell holds a number
IsNumber(c) == c.t = "int" \/ (c.t = "str" /\ isdigit(strip(c.v)))
NumberOf(c) == IF c.t = "int" THEN c ELSE N(str_of(int_of(strip(c.v))))
\* a numeric value
IsNumeric(c) == c.t = "int" /\ isdigit(c.v)

\* C15: every record of a non-empty merged table has a numeric total score; the
\* record of a student whose total-score cell is missing or is no number has the
\* total 0 (the load returns a table all the same).
C15_NumericTotal ==
    (Returned /\ result.rows # <<>>) =>
        \A i \in 1..Len(result.rows) :
            /\ IsNumeric(result.rows[i].Total_Score)
            /\ ans_df # <<>> =>
                   \E a \in 1..Len(ans_df) :
                       /\ ans_df[a].Name = result.rows[i].Name
                       /\ ans_df[a].Item = result.rows[i].Item
                       /\ result.rows[i].Total_Score =
                              IF IsNumber(ans_df[a].Total_Score)
                              THEN NumberOf(ans_df[a].Total_Score)
                              ELSE N(<<48>>)

\* a returned table with the record of a student whose total-score cell was
\* missing and the record of a student whose cell was a text that is no number
C15_Witness ==
    /\ Returned
    /\ \E i \in 1..Len(result.rows), a \in 1..Len(ans_df) :
           /\ ans_df[a].Name = result.rows[i].Name
           /\ isna(ans_df[a].Total_Score)
           /\ result.rows[i].Total_Score = N(<<48>>)
    /\ \E i \in 1..Len(result.rows), a \in 1..Len(ans_df) :
           /\ ans_df[a].Name = result.rows[i].Name
           /\ ans_df[a].Total_Score = S(TxtAbsent)
           /\ result.rows[i].Total_Score = N(<<48>>)
\* C16: no row of the answer-sheet table returned by load_answer_sheets is named
\* by an annotation label ('정답', '배점', '합계', '평균', 'None', 'nan'), whatever its
\* response cells hold and whether or not the label is written with surrounding
\* whitespace in the sheet.
C16_Original ==
    pc \in {"grades", "merge", "done"} =>
        \A i \in 1..Len(ans_df) : ans_df[i].Name.v \notin AnnotationLabels
-----------------------------------------------------------------------------
(* Item statistics: modules/statistics.py and the copies inside app.py *)

MaxStudents == 4

\* a number num/den, as the mean of a boolean Series; den = 0 stands for NaN, the
\* mean of an empty Series
Frac(num, den) == [num |-> num, den |-> den]
IsNaNFrac(p) == p.den = 0
\* p - q in floating point: NaN if either is NaN
FracMinus(p, q) ==
    IF IsNaNFrac(p) \/ IsNaNFrac(q) THEN Frac(0, 0)
    ELSE Frac(p.num * q.den - q.num * p.den, p.den * q.den)
\* the same number (NaN is not equal to NaN, but two NaN results are the same result)
FracSame(p, q) ==
    IF IsNaNFrac(p) \/ IsNaNFrac(q) THEN IsNaNFrac(p) /\ IsNaNFrac(q)
    ELSE p.num * q.den = q.num * p.den

is_correct_stripped(c) == strip(c.v) = Dot
\* df[col].astype(str) == '.'
is_correct(c) == c.v = Dot

\* (group[col].astype(str) == '.').mean()
correct_mean(group, col) ==
    Frac(Cardinality({i \in 1..Len(group) : is_correct(group[i].Item[col])}), Len(group))

\* calculate_correct_rate(df, item_cols): item_cols is the list of item numbers
calculate_correct_rate(df, item_cols) ==
    [i \in 1..Len(item_cols) |-> correct_mean(df, item_cols[i])]

\* the numeric total score of a row
Score(row) == int_of(row.Total_Score.v)

RemoveAt(df, i) == SubSeq(df, 1, i - 1) \o SubSeq(df, i + 1, Len(df))

\* df.nlargest(n, 'Total_Score'): the n rows with the largest totals, among equal
\* totals the first of the table (keep='first')
RECURSIVE nlargest(_, _)
nlargest(df, n) ==
    IF n <= 0 \/ df = <<>> THEN <<>>
    ELSE LET best == SetMax({Score(df[i]) : i \in 1..Len(df)})
             first == SetMin({i \in 1..Len(df) : Score(df[i]) = best})
         IN <<df[first]>> \o nlargest(RemoveAt(df, first), n - 1)

\* df.nsmallest(n, 'Total_Score')
RECURSIVE nsmallest(_, _)
nsmallest(df, n) ==
    IF n <= 0 \/ df = <<>> THEN <<>>
    ELSE LET least == SetMin({Score(df[i]) : i \in 1..Len(df)})
             first == SetMin({i \in 1..Len(df) : Score(df[i]) = least})
         IN <<df[first]>> \o nsmallest(RemoveAt(df, first), n - 1)

\* int(n * percentile) for a percentile given in hundredths (25 is 0.25): the
\* product of n with the double nearest to 0.25, 0.27 or 0.5 truncates to the
\* integer quotient
int_times(n, percentile) == (n * percentile) \div 100

\* max(1, round(n * percentile)), round() going to the even neighbour at a half
top_len_rounded(n, percentile) ==
    LET twice == (2 * n * percentile) \div 100
        whole == (n * percentile) \div 100
        half == (2 * n * percentile) % 100 = 0 /\ twice % 2 = 1
        r == IF half THEN (IF whole % 2 = 0 THEN whole ELSE whole + 1)
             ELSE (twice + 1) \div 2
    IN Max(1, r)
\* top_len = max(1, int(len(df) * percentile))
top_len(n, percentile) == Max(1, int_times(n, percentile))

\* calculate_discrimination_index(df, item_cols, 'Total_Score', percentile), with
\* the two groups it forms
calculate_discrimination_index(df, item_cols, percentile) ==
    LET top_students == nlargest(df, top_len(Len(df), percentile))
        bottom_students == nsmallest(df, top_len(Len(df), percentile))
    IN [top |-> top_students,
        bottom |-> bottom_students,
        discrimination_scores |->
            [i \in 1..Len(item_cols) |->
                FracMinus(correct_mean(top_students, item_cols[i]),
                          correct_mean(bottom_students, item_cols[i]))]]
\* the item analysis of app.py (tab 1): top_len = max(1, int(len(main_df)*0.25)),
\* nlargest / nsmallest, p_top - p_bot and the correct rate for the items 1..16
app_item_analysis(main_df) ==
    LET top_25 == nlargest(main_df, top_len(Len(main_df), 25))
        bot_25 == nsmallest(main_df, top_len(Len(main_df), 25))
    IN [top |-> top_25,
        bottom |-> bot_25,
        discrimination_scores |->
            [i \in 1..MaxItem |->
                FracMinus(correct_mean(top_25, i), correct_mean(bot_25, i))]]

\* the orders main_df.sort_values('Total_Score', ascending=False) can give: the
\* sort is not stable, rows with equal totals come in any order
RECURSIVE sort_values_desc(_)
sort_values_desc(main_df) ==
    IF main_df = <<>> THEN {<<>>}
    ELSE LET best == SetMax({Score(main_df[i]) : i \in 1..Len(main_df)})
             firsts == {i \in 1..Len(main_df) : Score(main_df[i]) = best}
         IN UNION {{<<main_df[i]>> \o rest : rest \in sort_values_desc(RemoveAt(main_df, i))} :
                      i \in firsts}

\* sorted_df.head(n) and sorted_df.tail(n)
head(df, n) == SubSeq(df, 1, Min(n, Len(df)))
tail(df, n) == SubSeq(df, Len(df) - Min(n, Len(df)) + 1, Len(df))

\* calculate_all_item_statistics of app.py, for one outcome sorted_df of the sort:
\* top_n = int(total_students * 0.27), the two groups and the discrimination of
\* the items 1..16
calculate_all_item_statistics(main_df, sorted_df) ==
    LET top_n == int_times(Len(main_df), 27)
        top_group == head(sorted_df, top_n)
        bottom_group == tail(sorted_df, top_n)
    IN [top |-> top_group,
        bottom |-> bottom_group,
        discrimination_scores |->
            [i \in 1..MaxItem |->
                FracMinus(correct_mean(top_group, i), correct_mean(bottom_group, i))]]

\* the students of a table: total score, responses to the items 1 and 2 (the
\* other items are answered correctly)
StatStudent(total, a, b) ==
    [Total_Score |-> N(total),
     Item |-> [k \in 1..MaxItem |-> IF k = 1 THEN a ELSE IF k = 2 THEN b ELSE S(Dot)]]
StatStudents ==
    {StatStudent(<<49, 48>>, S(Dot), S(Dot)),
     StatStudent(<<49, 48>>, S(<<50>>), S(<<32, 46>>)),
     StatStudent(<<48>>, S(Dot), NaN),
     StatStudent(<<48>>, S(<<50>>), S(Dot))}
Percentiles == {25, 27, 50}
ItemCols == <<1, 2>>

RECURSIVE TablesUpTo(_)
TablesUpTo(n) ==
    IF n = 0 THEN {<<>>}
    ELSE LET shorter == TablesUpTo(n - 1)
         IN shorter \cup {Append(t, s) : t \in {x \in shorter : Len(x) = n - 1}, s \in StatStudents}

\* a batch of two files, in the order given, and the percentile: every table of
\* at most MaxStudents students, cut into two files at every place
StatInputs ==
    {[files |-> <<SubSeq(t, 1, Min(k, Len(t))), SubSeq(t, Min(k, Len(t)) + 1, Len(t))>>,
      percentile |-> p] :
        t \in TablesUpTo(MaxStudents), k \in 0..MaxStudents, p \in Percentiles}

\* pd.concat of the files in the order given
StatTable(files) == Concat(files)

InitStats ==
    /\ arg \in StatInputs
    /\ called = "none"
    /\ ret = NaN
    /\ PipelineIdle

CallCorrectRate ==
    /\ called = "none"
    /\ called' = "calculate_correct_rate"
    /\ ret' = calculate_correct_rate(StatTable(arg.files), ItemCols)
    /\ UNCHANGED arg
    /\ UNCHANGED pvars

CallDiscriminationIndex ==
    /\ called = "none"
    /\ called' = "calculate_discrimination_index"
    /\ ret' = calculate_discrimination_index(StatTable(arg.files), ItemCols, arg.percentile)
    /\ UNCHANGED arg
    /\ UNCHANGED pvars

AppItemAnalysis ==
    /\ called = "none"
    /\ StatTable(arg.files) # <<>>
    /\ called' = "app_item_analysis"
    /\ ret' = app_item_analysis(StatTable(arg.files))
    /\ UNCHANGED arg
    /\ UNCHANGED pvars

CallAllItemStatistics ==
    /\ called = "none"
    /\ StatTable(arg.files) # <<>>
    /\ \E sorted_df \in sort_values_desc(StatTable(arg.files)) :
           ret' = calculate_all_item_statistics(StatTable(arg.files), sorted_df)
    /\ called' = "calculate_all_item_statistics"
    /\ UNCHANGED arg
    /\ UNCHANGED pvars

NextStats ==
    \/ CallCorrectRate
    \/ CallDiscriminationIndex
    \/ AppItemAnalysis
    \/ CallAllItemStatistics

SpecStats == InitStats /\ [][NextStats]_vars
-----------------------------------------------------------------------------
(* Properties of the item statistics (checked under SpecStats) *)

\* the table of the call, and the table when the two files come in the other order
GivenTable == StatTable(arg.files)
SwappedTable == StatTable(<<arg.files[2], arg.files[1]>>)
SameScores(p, q) == DOMAIN p = DOMAIN q /\ \A i \in DOMAIN p : FracSame(p[i], q[i])

\* C17: the item statistics do not depend on the order in which the files of a
\* batch are given: with the files in the other order the correct rates and the
\* discrimination indices are the same, also when students have equal totals.
C17_Original ==
    /\ called = "calculate_correct_rate" =>
           SameScores(ret, calculate_correct_rate(SwappedTable, ItemCols))
    /\ called = "calculate_discrimination_index" =>
           SameScores(ret.discrimination_scores,
                      calculate_discrimination_index(SwappedTable, ItemCols,
                                                     arg.percentile).discrimination_scores)
    /\ called = "app_item_analysis" =>
           SameScores(ret.discrimination_scores,
                      app_item_analysis(SwappedTable).discrimination_scores)

\* the number of rows of the table whose response to the item is the marker '.'
CorrectCount(df, col) == Cardinality({r \in 1..Len(df) : df[r].Item[col] = S(Dot)})

\* C18: for a table of at least one student calculate_correct_rate gives, for each
\* item column, the number of students whose response is the correct marker '.'
\* divided by the number of students, a value between 0 and 1.
C18_CorrectRate ==
    (called = "calculate_correct_rate" /\ GivenTable # <<>>) =>
        /\ DOMAIN ret = 1..Len(ItemCols)
        /\ \A i \in 1..Len(ItemCols) :
               /\ ret[i] = Frac(CorrectCount(GivenTable, ItemCols[i]), Len(GivenTable))
               /\ 0 <= ret[i].num
               /\ ret[i].num <= ret[i].den

\* four students, 2 of them correct on the first item and 3 on the second: the
\* rates are 2/4 and 3/4; one response is ' .' and is not counted
C18_Witness ==
    /\ called = "calculate_correct_rate"
    /\ Len(GivenTable) = 4
    /\ ret[1] = Frac(2, 4)
    /\ ret[2] = Frac(3, 4)
    /\ \E r \in 1..4 : GivenTable[r].Item[2] = S(<<32, 46>>)

DiscriminationCalls ==
    {"calculate_discrimination_index", "app_item_analysis", "calculate_all_item_statistics"}

\* C19: for a table of at least one student the discrimination index of every
\* item is a defined number between -1 and 1, the correct fraction of the top
\* group minus that of the bottom group, in each place that computes it.
C19_Original ==
    (called \in DiscriminationCalls /\ GivenTable # <<>>) =>
        \A i \in DOMAIN ret.discrimination_scores :
            LET d == ret.discrimination_scores[i]
                col == IF called = "calculate_discrimination_index" THEN ItemCols[i] ELSE i
            IN /\ ~IsNaNFrac(d)
               /\ d.den > 0 => (d.num <= d.den /\ -d.num <= d.den)
               /\ FracSame(d, FracMinus(correct_mean(ret.top, col),
                                        correct_mean(ret.bottom, col)))

\* the percentile a call works with, in hundredths
FractionUsed ==
    CASE called = "calculate_discrimination_index" -> arg.percentile
      [] called = "app_item_analysis" -> 25
      [] OTHER -> 27

\* C20: the top group and the bottom group each hold exactly
\* max(1, round(N * fraction)) students, N being the number of students.
C20_Original ==
    (called \in DiscriminationCalls /\ GivenTable # <<>>) =>
        /\ Len(ret.top) = top_len_rounded(Len(GivenTable), FractionUsed)
        /\ Len(ret.bottom) = top_len_rounded(Len(GivenTable), FractionUsed)
-----------------------------------------------------------------------------
(* Reliability (KR-20) and the correctness of a response token:             *)
(* modules/statistics.py and the two tabs of app.py that compute them        *)

MaxRelStudents == 3

\* p + q, p * q and p / q in floating point, on exact fractions: NaN if either is
\* NaN; a division by 0.0 gives inf or nan, no finite number (den = 0)
RECURSIVE GCD(_, _)
GCD(a, b) == IF b = 0 THEN a ELSE GCD(b, a % b)
Abs(a) == IF a < 0 THEN -a ELSE a
\* the same number in lowest terms, with a positive denominator
Reduced(num, den) ==
    LET g == GCD(Abs(num), Abs(den))
    IN IF den = 0 THEN Frac(0, 0)
       ELSE IF den > 0 THEN Frac(num \div g, den \div g)
       ELSE Frac((-num) \div g, (-den) \div g)
FracPlus(p, q) ==
    IF IsNaNFrac(p) \/ IsNaNFrac(q) THEN Frac(0, 0)
    ELSE Reduced(p.num * q.den + q.num * p.den, p.den * q.den)
FracTimes(p, q) ==
    IF IsNaNFrac(p) \/ IsNaNFrac(q) THEN Frac(0, 0)
    ELSE Reduced(p.num * q.num, p.den * q.den)
FracOver(p, q) ==
    IF IsNaNFrac(p) \/ IsNaNFrac(q) \/ q.num = 0 THEN Frac(0, 0)
    ELSE Reduced(p.num * q.den, p.den * q.num)
FracZero == Frac(0, 1)
FracIsZero(p) == ~IsNaNFrac(p) /\ p.num = 0

\* safe_binary(x): 1 if str(x).strip() == '.' else 0
safe_binary(x) == IF strip(x.v) = Dot THEN 1 ELSE 0
\* (main_df[col].astype(str) == '.').astype(int)
raw_binary(x) == IF is_correct(x) THEN 1 ELSE 0

RECURSIVE SumSeq(_)
SumSeq(xs) == IF xs = <<>> THEN 0 ELSE Head(xs) + SumSeq(Tail(xs))

\* Series.var() (ddof = 1) of a sequence of integers: NaN for fewer than 2 values
var(xs) ==
    LET n == Len(xs)
        sq == [i \in 1..n |-> xs[i] * xs[i]]
    IN IF n < 2 THEN Frac(0, 0)
       ELSE Frac(n * SumSeq(sq) - SumSeq(xs) * SumSeq(xs), n * (n - 1))
\* the variance with ddof = 0, the p*q of the formula for a 0/1 column
var_population(xs) ==
    LET n == Len(xs)
        sq == [i \in 1..n |-> xs[i] * xs[i]]
    IN IF n < 1 THEN Frac(0, 0)
       ELSE Frac(n * SumSeq(sq) - SumSeq(xs) * SumSeq(xs), n * n)

\* a 0/1 matrix: [columns |-> k, rows |-> sequence of rows of k numbers]
Column(binary_matrix, j) ==
    [i \in 1..Len(binary_matrix.rows) |-> binary_matrix.rows[i][j]]
\* Series.sum() skips NaN
RECURSIVE SumFracs(_)
SumFracs(ps) ==
    IF ps = <<>> THEN FracZero
    ELSE IF IsNaNFrac(Head(ps)) THEN SumFracs(Tail(ps))
    ELSE FracPlus(Head(ps), SumFracs(Tail(ps)))

var_sum_population(binary_matrix) ==
    SumFracs([j \in 1..binary_matrix.columns |-> var_population(Column(binary_matrix, j))])
\* var_sum = binary_matrix.var().sum()
var_sum(binary_matrix) ==
    SumFracs([j \in 1..binary_matrix.columns |-> var(Column(binary_matrix, j))])
\* total_var = binary_matrix.sum(axis=1).var()
total_var(binary_matrix) ==
    var([i \in 1..Len(binary_matrix.rows) |-> SumSeq(binary_matrix.rows[i])])

Alpha(p) == [raised |-> FALSE, alpha |-> p]
ZeroDivisionError == [raised |-> TRUE, alpha |-> Frac(0, 0)]

\* the body of calculate_kr20_reliability without its guard
calculate_kr20_unguarded(binary_matrix) ==
    LET k == binary_matrix.columns
    IN IF k = 1 THEN ZeroDivisionError
       ELSE Alpha(FracTimes(Frac(k, k - 1),
                            FracMinus(Frac(1, 1),
                                      FracOver(var_sum(binary_matrix), total_var(binary_matrix)))))
\* calculate_kr20_reliability(binary_matrix); k / (k - 1) raises for k = 1
calculate_kr20_reliability(binary_matrix) ==
    LET k == binary_matrix.columns
    IN IF FracIsZero(total_var(binary_matrix)) \/ IsNaNFrac(total_var(binary_matrix))
       THEN Alpha(FracZero)
       ELSE IF k = 1 THEN ZeroDivisionError
       ELSE Alpha(FracTimes(Frac(k, k - 1),
                            FracMinus(Frac(1, 1),
                                      FracOver(var_sum(binary_matrix), total_var(binary_matrix)))))

\* app.py, first tab: alpha = (16/15) * (1 - var_sum / total_var), guarded alike
app_alpha(binary_matrix) ==
    IF FracIsZero(total_var(binary_matrix)) \/ IsNaNFrac(total_var(binary_matrix))
    THEN Alpha(FracZero)
    ELSE Alpha(FracTimes(Frac(16, 15),
                         FracMinus(Frac(1, 1),
                                   FracOver(var_sum(binary_matrix), total_var(binary_matrix)))))

\* main_df[item_cols].applymap(safe_binary), item_cols being the items 1..k
applymap_safe_binary(main_df, k) ==
    [columns |-> k,
     rows |-> [i \in 1..Len(main_df) |-> [j \in 1..k |-> safe_binary(main_df[i].Item[j])]]]
\* binary_matrix[col] = (main_df[col].astype(str) == '.').astype(int) for the items 1..k
raw_binary_matrix(main_df, k) ==
    [columns |-> k,
     rows |-> [i \in 1..Len(main_df) |-> [j \in 1..k |-> raw_binary(main_df[i].Item[j])]]]

BandA == <<65>>
BandB == <<66>>
\* calculate_level_correct_rate(df, item_num, achievement_levels): per level the
\* percentage of the level's rows answered '.', 0.0 for a level without rows
calculate_level_correct_rate(df, item_num, achievement_levels) ==
    [l \in 1..Len(achievement_levels) |->
        LET HasLevel(row) == row.Achievement = S(achievement_levels[l])
            level_data == SelectSeq(df, HasLevel)
        IN IF Len(level_data) > 0
           THEN FracTimes(correct_mean(level_data, item_num), Frac(100, 1))
           ELSE FracZero]

\* the students of a table: band, responses to the items 1 and 2 (the other
\* items are answered correctly)
RelStudent(band, a, b) ==
    [Achievement |-> S(band), Total_Score |-> N(<<48>>),
     Item |-> [k \in 1..MaxItem |-> IF k = 1 THEN a ELSE IF k = 2 THEN b ELSE S(Dot)]]
DotBlank == <<46, 32>>
RelStudents ==
    {RelStudent(BandA, S(Dot), S(Dot)),
     RelStudent(BandA, S(<<50>>), S(DotBlank)),
     RelStudent(BandB, S(Dot), S(<<50>>)),
     RelStudent(BandB, S(<<50>>), S(Dot)),
     RelStudent(BandA, NaN, S(<<50>>))}

RECURSIVE RelTablesUpTo(_)
RelTablesUpTo(n) ==
    IF n = 0 THEN {<<>>}
    ELSE LET shorter == RelTablesUpTo(n - 1)
         IN shorter \cup {Append(t, s) : t \in {x \in shorter : Len(x) = n - 1}, s \in RelStudents}

\* a table of at most MaxRelStudents students and the number of item columns of
\* the matrix handed to calculate_kr20_reliability
RelColumns == {1, 2}
RelInputs == {[main_df |-> t, k |-> k] : t \in RelTablesUpTo(MaxRelStudents), k \in RelColumns}

InitRel ==
    /\ arg \in RelInputs
    /\ called = "none"
    /\ ret = NaN
    /\ PipelineIdle

\* calculate_kr20_reliability on the 0/1 matrix of the first k items
CallKr20Reliability ==
    /\ called = "none"
    /\ called' = "calculate_kr20_reliability"
    /\ ret' = [binary_matrix |-> raw_binary_matrix(arg.main_df, arg.k),
               reliability |-> calculate_kr20_reliability(raw_binary_matrix(arg.main_df, arg.k))]
    /\ UNCHANGED arg
    /\ UNCHANGED pvars

\* app.py, first tab: safe_binary on the 16 item columns, then alpha
AppSummaryReliability ==
    /\ called = "none"
    /\ arg.main_df # <<>>
    /\ called' = "app_alpha"
    /\ ret' = [binary_matrix |-> applymap_safe_binary(arg.main_df, MaxItem),
               reliability |-> app_alpha(applymap_safe_binary(arg.main_df, MaxItem))]
    /\ UNCHANGED arg
    /\ UNCHANGED pvars

\* app.py, item tab: the comparison with '.' on the 16 item columns, then
\* calculate_kr20_reliability
AppItemTabReliability ==
    /\ called = "none"
    /\ arg.main_df # <<>>
    /\ called' = "app_item_tab"
    /\ ret' = [binary_matrix |-> raw_binary_matrix(arg.main_df, MaxItem),
               reliability |-> calculate_kr20_reliability(raw_binary_matrix(arg.main_df, MaxItem))]
    /\ UNCHANGED arg
    /\ UNCHANGED pvars

\* calculate_level_correct_rate for the item arg.k and the levels A, B
CallLevelCorrectRate ==
    /\ called = "none"
    /\ called' = "calculate_level_correct_rate"
    /\ ret' = calculate_level_correct_rate(arg.main_df, arg.k, <<BandA, BandB>>)
    /\ UNCHANGED arg
    /\ UNCHANGED pvars

\* calculate_correct_rate for the items 1 and 2
CallCorrectRateRel ==
    /\ called = "none"
    /\ called' = "calculate_correct_rate"
    /\ ret' = calculate_correct_rate(arg.main_df, ItemCols)
    /\ UNCHANGED arg
    /\ UNCHANGED pvars

NextRel ==
    \/ CallKr20Reliability
    \/ AppSummaryReliability
    \/ AppItemTabReliability
    \/ CallLevelCorrectRate
    \/ CallCorrectRateRel

SpecRel == InitRel /\ [][NextRel]_vars
-----------------------------------------------------------------------------
(* Properties of the reliability and of the correctness of a token            *)
(* (checked under SpecRel)                                                    *)

ReliabilityCalls == {"calculate_kr20_reliability", "app_alpha", "app_item_tab"}
\* the students' numbers of correct items, as the matrix counts them
Totals(binary_matrix) ==
    {SumSeq(binary_matrix.rows[i]) : i \in 1..Len(binary_matrix.rows)}
\* all students have the same number of correct items, or there is one student or none
NoSpread(binary_matrix) ==
    Cardinality(Totals(binary_matrix)) <= 1 \/ Len(binary_matrix.rows) < 2

\* C21: whenever the variance of the students' total scores is zero or undefined
\* (all students have the same number of correct items, or there is a single
\* student), the reliability returned is exactly 0.0 and nothing is raised.
C21_ZeroVarianceGivesZero ==
    (called \in ReliabilityCalls /\ NoSpread(ret.binary_matrix)) =>
        /\ ~ret.reliability.raised
        /\ ret.reliability.alpha = FracZero

\* three students who answered different items but as many, seen by
\* calculate_kr20_reliability on two columns: the reliability is 0.0
C21_Witness ==
    /\ called = "calculate_kr20_reliability"
    /\ arg.k = 2
    /\ Len(ret.binary_matrix.rows) = 3
    /\ Totals(ret.binary_matrix) = {1}
    /\ <<1, 0>> \in {ret.binary_matrix.rows[i] : i \in 1..3}
    /\ <<0, 1>> \in {ret.binary_matrix.rows[i] : i \in 1..3}
    /\ ret.reliability = Alpha(FracZero)

\* p <= q for two numbers (denominators are positive)
FracLeq(p, q) == ~IsNaNFrac(p) /\ ~IsNaNFrac(q) /\ p.num * q.den <= q.num * p.den

SafeCorrectCount(df, item) ==
    Cardinality({i \in 1..Len(df) : safe_binary(df[i].Item[item]) = 1})
LevelRows(df, band) == SelectSeq(df, LAMBDA row : row.Achievement = S(band))

\* C30: every place that decides whether a response token is correct agrees with
\* safe_binary on every token: the 0/1 matrices of the two tabs, the correct
\* rates and the correct rates per level count exactly the tokens that
\* safe_binary maps to 1, tokens with surrounding whitespace included.
C30_Original ==
    /\ called \in {"app_alpha", "app_item_tab"} =>
           \A i \in 1..Len(arg.main_df), j \in 1..MaxItem :
               /\ (ret.binary_matrix.rows[i][j] = 1) <=> is_correct(arg.main_df[i].Item[j])
               /\ ret.binary_matrix.rows[i][j] = safe_binary(arg.main_df[i].Item[j])
    /\ called = "calculate_correct_rate" =>
           \A c \in 1..Len(ItemCols) :
               FracSame(ret[c], Frac(SafeCorrectCount(arg.main_df, ItemCols[c]),
                                     Len(arg.main_df)))
    /\ called = "calculate_level_correct_rate" =>
           /\ Len(LevelRows(arg.main_df, BandA)) > 0 =>
                  FracSame(ret[1], Frac(100 * SafeCorrectCount(LevelRows(arg.main_df, BandA), arg.k),
                                        Len(LevelRows(arg.main_df, BandA))))
           /\ Len(LevelRows(arg.main_df, BandB)) > 0 =>
                  FracSame(ret[2], Frac(100 * SafeCorrectCount(LevelRows(arg.main_df, BandB), arg.k),
                                        Len(LevelRows(arg.main_df, BandB))))
-----------------------------------------------------------------------------
(* The cut-point classifier: get_achievement_score_based of                  *)
(* modules/statistics.py and the function of the same name inside app.py     *)

MaxCut == 5

BandC == <<67>>
BandD == <<68>>

\* a cut point that is not given
None == -1
\* a score after pd.to_numeric(score, errors='coerce'): NaN (a missing or
\* unparseable score) or a number of tenths
NoScore == [isna |-> TRUE, tenths |-> 0]
ScoreOf(t) == [isna |-> FALSE, tenths |-> t]

\* score >= cut for a score in tenths and a whole cut point
AtLeast(tenths, cut) == tenths >= 10 * cut

\* round(score): to the nearest whole number, a half going to the even neighbour;
\* the result in tenths
round(tenths) ==
    LET whole == tenths \div 10
        rest == tenths % 10
    IN IF rest < 5 THEN 10 * whole
       ELSE IF rest > 5 THEN 10 * (whole + 1)
       ELSE IF whole % 2 = 0 THEN 10 * whole ELSE 10 * (whole + 1)

\* get_achievement_score_based of modules/statistics.py
get_achievement_score_based(score, cut_AB, cut_BC, cut_CD, cut_DE, cut_EI) ==
    IF score.isna
    THEN (IF cut_EI # None THEN BandNotYet ELSE IF cut_CD # None THEN BandE ELSE BandC)
    ELSE IF cut_CD # None
    THEN IF cut_EI # None
         THEN IF AtLeast(score.tenths, cut_AB) THEN BandA
              ELSE IF AtLeast(score.tenths, cut_BC) THEN BandB
              ELSE IF AtLeast(score.tenths, cut_CD) THEN BandC
              ELSE IF AtLeast(score.tenths, cut_DE) THEN BandD
              ELSE IF AtLeast(score.tenths, cut_EI) THEN BandE
              ELSE BandNotYet
         ELSE IF AtLeast(score.tenths, cut_AB) THEN BandA
              ELSE IF AtLeast(score.tenths, cut_BC) THEN BandB
              ELSE IF AtLeast(score.tenths, cut_CD) THEN BandC
              ELSE IF AtLeast(score.tenths, cut_DE) THEN BandD
              ELSE BandE
    ELSE IF AtLeast(score.tenths, cut_AB) THEN BandA
         ELSE IF AtLeast(score.tenths, cut_BC) THEN BandB
         ELSE BandC

\* get_achievement_score_based of app.py; the cut points are those of the sidebar
app_get_achievement_score_based(score, cut_AB, cut_BC, cut_CD, cut_DE, cut_EI) ==
    IF score.isna
    THEN (IF cut_EI # None THEN BandNotYet ELSE IF cut_CD # None THEN BandE ELSE BandC)
    ELSE LET rounded == round(score.tenths) IN
         IF cut_CD = None /\ cut_EI = None
         THEN IF AtLeast(rounded, cut_AB) THEN BandA
              ELSE IF AtLeast(rounded, cut_BC) THEN BandB
              ELSE BandC
         ELSE IF cut_CD = None /\ cut_EI # None
         THEN IF AtLeast(rounded, cut_AB) THEN BandA
              ELSE IF AtLeast(rounded, cut_BC) THEN BandB
              ELSE IF AtLeast(rounded, cut_EI) THEN BandC
              ELSE BandNotYet
         ELSE IF cut_CD # None /\ cut_EI = None
         THEN IF AtLeast(rounded, cut_AB) THEN BandA
              ELSE IF AtLeast(rounded, cut_BC) THEN BandB
              ELSE IF AtLeast(rounded, cut_CD) THEN BandC
              ELSE IF AtLeast(rounded, cut_DE) THEN BandD
              ELSE BandE
         ELSE IF AtLeast(rounded, cut_AB) THEN BandA
              ELSE IF AtLeast(rounded, cut_BC) THEN BandB
              ELSE IF AtLeast(rounded, cut_CD) THEN BandC
              ELSE IF AtLeast(rounded, cut_DE) THEN BandD
              ELSE IF AtLeast(rounded, cut_EI) THEN BandE
              ELSE BandNotYet

\* the cut points of the four band sets of the sidebar, in descending order
Cuts(ab, bc, cd, de, ei) == [AB |-> ab, BC |-> bc, CD |-> cd, DE |-> de, EI |-> ei]
CutValues == 1..MaxCut
CutConfigs ==
    {Cuts(ab, bc, None, None, None) : ab, bc \in CutValues}
    \cup {Cuts(ab, bc, None, None, ei) : ab, bc, ei \in CutValues}
    \cup {Cuts(ab, bc, cd, de, None) : ab, bc, cd, de \in CutValues}
    \cup {Cuts(ab, bc, cd, de, ei) : ab, bc, cd, de, ei \in CutValues}
\* the cut points given, from the highest
Given(c) == SelectSeq(<<c.AB, c.BC, c.CD, c.DE, c.EI>>, LAMBDA x : x # None)
Descending(c) == \A i \in 1..(Len(Given(c)) - 1) : Given(c)[i] > Given(c)[i + 1]
\* scores from 0.0 to one point above the highest cut point, in tenths, and no score
CutScores == {NoScore} \cup {ScoreOf(t) : t \in 0..(10 * (MaxCut + 1))}
CutInputs == {[score |-> s, cuts |-> c] : s \in CutScores, c \in {x \in CutConfigs : Descending(x)}}

InitCut ==
    /\ arg \in CutInputs
    /\ called = "none"
    /\ ret = NaN
    /\ PipelineIdle

CallGetAchievement ==
    /\ called = "none"
    /\ called' = "get_achievement_score_based"
    /\ ret' = get_achievement_score_based(arg.score, arg.cuts.AB, arg.cuts.BC, arg.cuts.CD,
                                          arg.cuts.DE, arg.cuts.EI)
    /\ UNCHANGED arg
    /\ UNCHANGED pvars

AppGetAchievement ==
    /\ called = "none"
    /\ called' = "app_get_achievement_score_based"
    /\ ret' = app_get_achievement_score_based(arg.score, arg.cuts.AB, arg.cuts.BC, arg.cuts.CD,
                                              arg.cuts.DE, arg.cuts.EI)
    /\ UNCHANGED arg
    /\ UNCHANGED pvars

NextCut ==
    \/ CallGetAchievement
    \/ AppGetAchievement

SpecCut == InitCut /\ [][NextCut]_vars

-----------------------------------------------------------------------------
(* Properties of the cut-point classifier (checked under SpecCut) *)

\* the bands of the scheme in use, from the highest: one band per cut point
\* given, then the lowest band
SchemeBands(c) ==
    IF c.CD = None /\ c.EI = None THEN <<BandA, BandB, BandC>>
    ELSE IF c.CD = None THEN <<BandA, BandB, BandC, BandNotYet>>
    ELSE IF c.EI = None THEN <<BandA, BandB, BandC, BandD, BandE>>
    ELSE <<BandA, BandB, BandC, BandD, BandE, BandNotYet>>
\* the highest band whose cut point is at most the score, the lowest band of the
\* scheme when the score is below every cut point or is missing
BandByCuts(score, c) ==
    LET reached == {i \in 1..Len(Given(c)) : AtLeast(score.tenths, Given(c)[i])}
    IN IF score.isna \/ reached = {} THEN SchemeBands(c)[Len(SchemeBands(c))]
       ELSE SchemeBands(c)[SetMin(reached)]
ClassifierCalls == {"get_achievement_score_based", "app_get_achievement_score_based"}

\* C23: given cut points in descending order, the classifier returns the highest
\* band whose cut point is less than or equal to the score (a score equal to a
\* cut point gets the upper band), the lowest band of the scheme when the score
\* is below every cut point, and the lowest band of the scheme in use for a
\* missing or unparseable score.
C23_Original ==
    called \in ClassifierCalls => ret = BandByCuts(arg.score, arg.cuts)

\* C29: the two revisions of the classifier assign the same band to every score
\* for every configuration of cut points.
C29_Original ==
    /\ called = "get_achievement_score_based" =>
           ret = app_get_achievement_score_based(arg.score, arg.cuts.AB, arg.cuts.BC,
                                                 arg.cuts.CD, arg.cuts.DE, arg.cuts.EI)
    /\ called = "app_get_achievement_score_based" =>
           ret = get_achievement_score_based(arg.score, arg.cuts.AB, arg.cuts.BC,
                                             arg.cuts.CD, arg.cuts.DE, arg.cuts.EI)
-----------------------------------------------------------------------------
(* The answer-sheet extractor on one file: load_answer_sheets of             *)
(* modules/data_loader.py and the answer-sheet loop of app.py                *)

DeepRows == 20
LateRows == 8

TxtTeacher == <<45812, 51076>>
\* the cell of a left-hand column of a given kind, in the header row and in the
\* row of a student
LeftHeader(kind) ==
    CASE kind = "code" -> S(TxtClassSeat)
      [] kind = "code2" -> S(TxtClassSeat)
      [] kind = "name" -> S(KwSeongmyeong)
      [] kind = "num" -> S(KwBeonho)
      [] kind = "teacher" -> S(TxtTeacher)
      [] OTHER -> NaN
LeftCell(kind, s) ==
    CASE kind = "code" -> s.code
      [] kind = "code2" -> S(<<57, 47, 57>>)
      [] kind = "name" -> s.name
      [] kind = "num" -> S(<<55>>)
      [] kind = "teacher" -> S(NameP)
      [] OTHER -> NaN

\* the columns to the left of the item columns
Layouts ==
    {<<"code", "name", "blank">>,
     <<"code", "blank", "name">>,
     <<"name">>,
     <<>>,
     <<"code", "num", "blank", "name", "blank">>,
     <<"code", "num", "num", "blank", "name", "blank">>,
     <<"code", "code2", "name", "blank">>,
     <<"name", "teacher">>,
     <<"name", "num", "blank">>}

\* the cells of the header row above the item columns
ItemHeads ==
    {<<S(<<49>>), S(<<50>>), S(<<51>>), S(<<52>>)>>,
     <<S(<<49>>), S(<<50>>), S(<<51>>), S(<<53>>)>>,
     <<S(<<53>>), S(<<54>>), S(<<55>>), S(<<56>>)>>,
     <<S(<<49>>), S(<<50>>), S(<<51>>)>>,
     <<S(<<50>>), S(<<49>>), S(<<52>>), S(<<51>>)>>,
     <<S(<<49>>), S(<<50>>), NaN, S(<<51>>), S(<<52>>)>>,
     <<S(<<49>>), S(<<50>>), S(<<51>>), S(<<52>>), S(<<49>>)>>,
     <<S(<<49, 46, 48>>), S(<<50, 46, 48>>), S(<<51, 46, 48>>), S(<<52, 46, 48>>)>>,
     <<S(<<49>>), S(<<50>>), S(<<51>>), S(<<52>>), S(<<53, 46, 48>>), S(<<49, 48>>)>>,
     <<S(<<49, 46, 48>>), S(<<49>>), S(<<50>>), S(<<51>>), S(<<52>>)>>}

\* three students after LateRows empty rows
StudentsLate ==
    [i \in 1..LateRows |-> Stu(NaN, NaN, <<NaN, NaN, NaN, NaN>>, NaN)] \o StudentsCoded

\* a sheet: the rows above the header ("title": a title row; "deep": DeepRows
\* title rows; "decoy": a title row and a row holding 4, 3, 2, 1), the header
\* row, the answer-key and point-value rows, one row per student
ExamSheet(d) ==
    LET nleft == Len(d.left)
        nitem == Len(d.head)
        width == nleft + nitem + 1
        blanks(n) == [i \in 1..n |-> NaN]
        title == <<S(TxtItem)>> \o blanks(width - 1)
        decoy == <<S(<<52>>), S(<<51>>), S(<<50>>), S(<<49>>)>> \o blanks(width - 4)
        above == CASE d.pre = "deep" -> [i \in 1..DeepRows |-> title]
                   [] d.pre = "decoy" -> <<title, decoy>>
                   [] OTHER -> <<title>>
        header == [i \in 1..nleft |-> LeftHeader(d.left[i])] \o d.head \o <<S(KwJeomsu)>>
        keyCell(j) == <<S(<<50>>), S(<<53>>), S(<<51>>), S(<<50>>)>>[((j - 1) % 4) + 1]
        key == [i \in 1..nleft |-> IF d.left[i] = "name" THEN S(LabelAnswer) ELSE NaN]
               \o [j \in 1..nitem |-> keyCell(j)] \o <<NaN>>
        points == [i \in 1..nleft |-> IF d.left[i] = "name" THEN S(LabelPoints) ELSE NaN]
                  \o [j \in 1..nitem |-> S(<<49, 48>>)] \o <<S(<<52, 48>>)>>
        row(s) == [i \in 1..nleft |-> LeftCell(d.left[i], s)]
                  \o [j \in 1..nitem |-> s.ans[((j - 1) % 4) + 1]] \o <<s.total>>
    IN above \o <<header, key, points>> \o [i \in 1..Len(d.studs) |-> row(d.studs[i])]

SheetInputs ==
    {[pre |-> "title", left |-> l, head |-> h, studs |-> s] :
        l \in Layouts, h \in ItemHeads, s \in {StudentsCoded, StudentsPlain, StudentsLate}}
    \cup {[pre |-> p, left |-> l, head |-> h, studs |-> StudentsCoded] :
              p \in {"deep", "decoy"}, l \in Layouts, h \in ItemHeads}

\* what the loop body computes for one file g in revision rev: the indices it
\* locates, the column each Item_k is read from (-1: the constant '.'), what it
\* does with the file and the frame it appends to all_ans
answer_file_trace(g, rev) ==
    LET preview == FirstRows(g, PreviewRowsAns)
        hdr == item_header_row(preview)
        fb == fallback_header_row(preview)
        raw == SkipRows(g, hdr + HeaderSkip)
        map == item_col_map(g[hdr + 1])
        item_start == map[1]
        name_col == IF rev = "module" THEN name_col_module(raw, item_start)
                    ELSE name_col_app(raw, item_start)
        none == [header_row_idx |-> hdr, item_col_map |-> <<>>, item_start_col_idx |-> -1,
                 name_col_idx |-> -1, class_num_col_idx |-> -1, q_idx |-> <<>>,
                 ncols |-> 0]
        \* not (header_row_idx == -1 or item_start_col_idx == -1)
        located == hdr # -1 /\ 1 \in DOMAIN map
    IN IF located
       THEN [header_row_idx |-> hdr, item_col_map |-> map, item_start_col_idx |-> item_start,
             name_col_idx |-> name_col,
             class_num_col_idx |-> class_num_col(raw, name_col),
             q_idx |-> [k \in 1..MaxItem |->
                           IF item_q_idx(map, item_start, k) < NCols(raw)
                           THEN item_q_idx(map, item_start, k) ELSE -1],
             ncols |-> NCols(raw),
             did |-> "frame", frame |-> item_header_frame(g, hdr, rev)]
       ELSE IF rev = "module"
       THEN none @@ [did |-> "skipped", frame |-> <<>>]
       ELSE IF fb = -1
       THEN none @@ [did |-> "return_none", frame |-> <<>>]
       ELSE none @@ [did |-> "fallback", frame |-> fallback_frame(g, fb)]

InitSheet ==
    /\ arg \in SheetInputs
    /\ called = "none"
    /\ ret = NaN
    /\ PipelineIdle

\* load_answer_sheets([f]) of modules/data_loader.py
LoadAnswerSheets ==
    /\ called = "none"
    /\ called' = "load_answer_sheets"
    /\ LET t == answer_file_trace(ExamSheet(arg), "module")
       IN ret' = t @@ [ans_df |-> clean_names(t.frame)]
    /\ UNCHANGED arg
    /\ UNCHANGED pvars

\* the answer-sheet loop of load_and_merge_data of app.py on the one file f, to ans_df
AppLoadAnswers ==
    /\ called = "none"
    /\ called' = "app_answer_loop"
    /\ LET t == answer_file_trace(ExamSheet(arg), "app")
       IN ret' = t @@ [ans_df |-> clean_names(t.frame)]
    /\ UNCHANGED arg
    /\ UNCHANGED pvars

NextSheet ==
    \/ LoadAnswerSheets
    \/ AppLoadAnswers

SpecSheet == InitSheet /\ [][NextSheet]_vars
-----------------------------------------------------------------------------
(* Properties of the answer-sheet extractor (checked under SpecSheet) *)

ExtractorCalls == {"load_answer_sheets", "app_answer_loop"}
\* the file has gone through the item-header path
FrameBuilt == called \in ExtractorCalls /\ ret.did = "frame"
\* the data rows of the file, as the extractor reads them below the header it found
DataRows == SkipRows(ExamSheet(arg), ret.header_row_idx + HeaderSkip)

\* the first row of the preview with at least 4 of them, or -1
AnchorRow(preview) ==
    LET hits == {r \in 0..(Len(preview) - 1) : Cardinality(Anchors(preview[r + 1])) >= 4}
    IN IF hits = {} THEN -1 ELSE SetMin(hits)
FirstColumnOf(row, k) == SetMin({c \in 0..(Len(row) - 1) : row[c + 1].v = str_of(k)})

\* C24: the item header is the first row of the 20-row preview in which at least
\* 4 of the item numbers 1..16 appear as cell values, whichever numbers those
\* are, and each item number found there is recorded with the column of its
\* first occurrence in that row.
C24_Original ==
    called \in ExtractorCalls =>
        LET preview == FirstRows(ExamSheet(arg), PreviewRowsAns)
            r == AnchorRow(preview)
        IN /\ ret.header_row_idx = r
           /\ r # -1 =>
                  \A k \in Anchors(preview[r + 1]) :
                      /\ k \in DOMAIN ret.item_col_map
                      /\ ret.item_col_map[k] = FirstColumnOf(preview[r + 1], k)

\* the first row of the preview that holds each of '1', '2', '3' and '4', or -1
OneToFourRow(preview) ==
    LET hits == {r \in 0..(Len(preview) - 1) : {1, 2, 3, 4} \subseteq Anchors(preview[r + 1])}
    IN IF hits = {} THEN -1 ELSE SetMin(hits)
\* the columns of a row whose cell reads as the number k once it is trimmed and
\* rid of '.0'
ColumnsReading(row, k) ==
    {c \in 0..(Len(row) - 1) : replace_dot0(strip(row[c + 1].v)) = str_of(k)}

\* C24, amended: the item header is the first row of the 20-row preview in which
\* each of the four numbers 1, 2, 3 and 4 appears as a cell value (four other item
\* numbers do not make a header); for that row every item number 1..16 that a
\* cell reads as, once trimmed and rid of '.0', is recorded with the column of the
\* first such cell, and no other number is recorded.
C24_FirstRowWithOneToFour ==
    called \in ExtractorCalls =>
        LET preview == FirstRows(ExamSheet(arg), PreviewRowsAns)
            r == OneToFourRow(preview)
        IN /\ ret.header_row_idx = r
           /\ r # -1 =>
                  /\ DOMAIN ret.item_col_map =
                         {k \in 1..MaxItem : ColumnsReading(preview[r + 1], k) # {}}
                  /\ \A k \in DOMAIN ret.item_col_map :
                         ret.item_col_map[k] = SetMin(ColumnsReading(preview[r + 1], k))
           /\ r = -1 => ret.did # "frame"

\* a sheet whose header row holds 1, 2, 3, 4 out of order is accepted, and a sheet
\* whose header row holds four other item numbers (1, 2, 3, 5) would be refused
C24_Witness ==
    /\ called = "load_answer_sheets"
    /\ arg.pre = "title"
    /\ arg.head = <<S(<<50>>), S(<<49>>), S(<<52>>), S(<<51>>)>>
    /\ arg.left = <<"code", "name", "blank">>
    /\ ret.header_row_idx = 1
    /\ ret.item_col_map = (1 :> 4) @@ (2 :> 3) @@ (3 :> 6) @@ (4 :> 5)
    /\ item_header_row(FirstRows(ExamSheet([arg EXCEPT !.head =
            <<S(<<49>>), S(<<50>>), S(<<51>>), S(<<53>>)>>]), PreviewRowsAns)) = -1

\* at least 3 of the first 10 data cells of column k pass the Korean-name predicate
NamesIn(k) ==
    /\ k >= 0
    /\ k < NCols(DataRows)
    /\ korean_name_count(DataRows, k) >= MinHits
\* c-2 if it passes, otherwise c-1 if it passes, otherwise c-2 again
NameColumnByRule(c) ==
    IF NamesIn(c - 2) THEN c - 2 ELSE IF NamesIn(c - 1) THEN c - 1 ELSE c - 2

\* C26: with the item-1 column at index c, the name column chosen is c-2 when
\* column c-2 passes the name test, otherwise c-1 when column c-1 passes,
\* otherwise c-2 again; no other column is ever chosen (no column at all, -1,
\* when c-2 would lie left of the sheet and c-1 does not pass either).
C26_Original ==
    FrameBuilt =>
        LET c == ret.item_start_col_idx
        IN /\ ret.name_col_idx \in {c - 2, c - 1, -1}
           /\ (c >= 2 \/ NamesIn(c - 1)) => ret.name_col_idx = NameColumnByRule(c)

\* the columns among the 3 left of the name column in which at least 3 of the
\* first 10 data cells are class/seat codes
CodeColumnsLeftOf(name_col) ==
    {k \in {name_col - 1, name_col - 2, name_col - 3} :
        /\ k >= 0
        /\ k < NCols(DataRows)
        /\ valid_class_count(DataRows, k) >= MinHits}
NearestCodeColumn(name_col) ==
    IF name_col = -1 \/ CodeColumnsLeftOf(name_col) = {} THEN -1
    ELSE SetMax(CodeColumnsLeftOf(name_col))

ItemColumns == {ret.item_col_map[k] : k \in DOMAIN ret.item_col_map}

\* C28: an item number without header column is never reported with the correct
\* marker '.' for any student and is never filled from another item's column or
\* from the total-score column.
C28_Original ==
    FrameBuilt =>
        \A k \in (1..MaxItem) \ DOMAIN ret.item_col_map :
            /\ ret.q_idx[k] \notin ItemColumns \cup {ret.ncols - 1}
            /\ \A i \in 1..Len(ret.frame) : ret.frame[i].Item[k] # S(Dot)
-----------------------------------------------------------------------------
(* The keyword fallback of the answer-sheet extractor, in the load of a batch *)

\* the file has no item header row in its preview
NoItemHeader(d) == item_header_row(FirstRows(AnswerSheet(d), PreviewRowsAns)) = -1
\* the first preview row of the file with a cell that contains '성명' or '이름', or -1
KeywordRow(d) ==
    LET preview == FirstRows(AnswerSheet(d), PreviewRowsAns)
        hits == {r \in 0..(Len(preview) - 1) :
                    \E c \in 1..Len(preview[r + 1]) :
                        \/ Contains(preview[r + 1][c].v, KwSeongmyeong)
                        \/ Contains(preview[r + 1][c].v, KwIreum)}
    IN IF hits = {} THEN -1 ELSE SetMin(hits)
\* the files of the batch that give a frame: an item header or a name keyword row
RECURSIVE FramedFiles(_)
FramedFiles(fed) ==
    IF fed = <<>> THEN <<>>
    ELSE (IF NoItemHeader(Head(fed)) /\ KeywordRow(Head(fed)) = -1 THEN <<>>
          ELSE <<Head(fed)>>) \o FramedFiles(Tail(fed))
\* a row of a frame is read below the keyword row, its name from the keyword
\* column and item i from column name + 2 + (i - 1) as far as the sheet reaches
ReadByKeyword(row, d) ==
    LET g == AnswerSheet(d)
        k == KeywordRow(d)
        raw == SkipRows(g, k + 1)
    IN \E c \in 0..(Len(g[k + 1]) - 1) :
          /\ Contains(g[k + 1][c + 1].v, KwSeongmyeong) \/ Contains(g[k + 1][c + 1].v, KwIreum)
          /\ \E r \in 1..Len(raw) :
                /\ row.Name = raw[r][c + 1]
                /\ \A i \in 1..MaxItem :
                      c + 2 + (i - 1) < NCols(raw) => row.Item[i] = raw[r][c + 2 + (i - 1) + 1]

\* C25: a file without item header row falls back to the first preview row with a
\* name keyword, takes it as the header and reads items 1..16 from the contiguous
\* columns that start two columns after the name column; only a file without such
\* a row either gives zero rows, with a diagnostic.
C25_Original ==
    /\ Len(all_ans) = Len(FramedFiles(fed_ans))
    /\ \A j \in 1..Len(all_ans) :
          LET d == FramedFiles(fed_ans)[j]
          IN NoItemHeader(d) =>
                /\ all_ans[j] # <<>>
                /\ \A i \in 1..Len(all_ans[j]) : ReadByKeyword(all_ans[j][i], d)
    /\ \A n \in 1..Len(fed_ans) :
          (NoItemHeader(fed_ans[n]) /\ KeywordRow(fed_ans[n]) = -1) =>
              \E m \in diag : m.n = n

=============================================================================
